---------------------------- MODULE Spec2Model ----------------------------
(***************************************************************************)
(* Model of the ubisys LD6 external converter for Zigbee2MQTT, in its two  *)
(* revisions:                                                              *)
(*   - src/unnamed/part_000  (the earlier, long revision; "part000")       *)
(*   - src/ubisys_ld6.mjs    (the later, ModernExtend revision; "ld6")     *)
(* Bytes are integers 0..255, buffers are sequences of bytes (TLA+ index   *)
(* k+1 is JavaScript index k), hex strings are sequences of hex digits.    *)
(***************************************************************************)
EXTENDS Integers, Sequences, FiniteSets, TLC

VARIABLES
    data,       \* codec: the raw buffer handed to parseOutputConfig
    origin,     \* codec: index of the catalog entry the buffer was built from
    flipped,    \* codec: TRUE once one byte of the buffer has been changed
    result,     \* codec: what parseOutputConfig returned (Pending before)
    rev,        \* gateway: the installed revision, "part000" or "ld6"
    devCfg,     \* device: the outputConfigurations attribute (array of elements)
    cache,      \* host: the attribute value last read or reported (Undefined before)
    req,        \* gateway: the set request being served, and where it is suspended
    io,         \* gateway: the device I/O the request has issued, in order
    reply,      \* gateway: what the request returned or threw (Pending before)
    eps,        \* host: the light endpoints the host knows, with their attributes
    exposed,    \* host: the result of the last evaluation of exposes (Pending before)
    synced,     \* history: "no" after a write, "read" once a read or report has
                \* followed it, "shown" once exposes was evaluated after that
    served,     \* session: the number of requests that have returned
    other,      \* gateway: a second request in flight (its req, io and reply)
    shadow,     \* history: the configuration the completed requests amount to,
                \* applied one after another in the order their writes were acknowledged
    raced,      \* history: TRUE once a write was acknowledged while another
                \* calibration was between its read and its write
    devOptions, \* device: the advancedOptions attribute of lightingColorCtrl
    devMode,    \* J1 device: the mode attribute of closuresWindowCovering
    metaState   \* host: meta.state, the state published so far, by key

codecVars == <<data, origin, flipped, result>>
hostVars  == <<eps, exposed, synced, served>>
raceVars  == <<other, shadow, raced>>
attrVars  == <<devOptions, devMode, metaState>>
gwVars    == <<rev, devCfg, cache, req, io, reply, eps, exposed, synced, served,
               other, shadow, raced, devOptions, devMode, metaState>>
vars      == <<data, origin, flipped, result, rev, devCfg, cache, req, io, reply,
               eps, exposed, synced, served, other, shadow, raced,
               devOptions, devMode, metaState>>

-----------------------------------------------------------------------------
(* JavaScript values that are not plain bytes                              *)

Null      == [t |-> "null"]
Undefined == [t |-> "undefined"]
Num(n)    == [t |-> "number", v |-> n]
Str(s)    == [t |-> "string", s |-> s]
Pending   == [t |-> "pending"]
\* a state object without keys
NoState   == [k \in {} |-> FALSE]
Idle      == [op |-> "idle", pc |-> "idle"]
\* no second request
NoOther   == [req |-> Idle, io |-> <<>>, reply |-> Pending]

Byte == 0..255

\* the endpoints that can carry a light: [1, 5, 6, 7, 8, 9]
LightEndpoints == {1, 5, 6, 7, 8, 9}
\* a host that knows no light endpoint
NoEndpoints == [epNum \in LightEndpoints |-> Null]

-----------------------------------------------------------------------------
(* The catalogs                                                            *)

OUTPUT_CONFIGURATIONS_part000 ==
    << [ name |-> "1x_dimmable",
         description |-> "1x Dimmable (mono) - Single channel white",
         data |-> << <<16, 255, 255, 255, 255, 255>>,
                  <<0, 255, 255, 255, 255, 255>>,
                  <<0, 255, 255, 255, 255, 255>>,
                  <<0, 255, 255, 255, 255, 255>>,
                  <<0, 255, 255, 255, 255, 255>>,
                  <<0, 255, 255, 255, 255, 255>> >> ],
       [ name |-> "1x_cct",
         description |-> "1x CCT / Tunable White (Cool/Warm) - 2 channel",
         data |-> << <<17, 254, 66, 80, 217, 82>>,
                  <<18, 254, 185, 117, 29, 105>>,
                  <<0, 255, 255, 255, 255, 255>>,
                  <<0, 255, 255, 255, 255, 255>>,
                  <<0, 255, 255, 255, 255, 255>>,
                  <<0, 255, 255, 255, 255, 255>> >> ],
       [ name |-> "1x_rgb",
         description |-> "1x RGB Color - 3 channel",
         data |-> << <<19, 71, 6, 177, 239, 78>>,
                  <<20, 160, 57, 29, 130, 211>>,
                  <<21, 66, 198, 31, 204, 14>>,
                  <<0, 255, 255, 255, 255, 255>>,
                  <<0, 255, 255, 255, 255, 255>>,
                  <<0, 255, 255, 255, 255, 255>> >> ],
       [ name |-> "1x_rgbw",
         description |-> "1x RGBW (RGB + neutral White) - 4 channel",
         data |-> << <<19, 71, 6, 177, 239, 78>>,
                  <<20, 160, 57, 29, 130, 211>>,
                  <<21, 66, 198, 31, 204, 14>>,
                  <<17, 254, 100, 97, 114, 96>>,
                  <<0, 255, 255, 255, 255, 255>>,
                  <<0, 255, 255, 255, 255, 255>> >> ],
       [ name |-> "1x_rgbww",
         description |-> "1x RGBWW (RGB + Cool/Warm White) - 5 channel",
         data |-> << <<19, 71, 6, 177, 239, 78>>,
                  <<20, 160, 57, 29, 130, 211>>,
                  <<21, 66, 198, 31, 204, 14>>,
                  <<17, 254, 66, 80, 217, 82>>,
                  <<18, 254, 185, 117, 29, 105>>,
                  <<0, 255, 255, 255, 255, 255>> >> ],
       [ name |-> "1x_extended_gamut",
         description |-> "1x Extended Color Gamut (R/A/G/T/B/V) - 6 channel",
         data |-> << <<19, 69, 134, 177, 239, 78>>,
                  <<22, 198, 89, 154, 128, 101>>,
                  <<20, 254, 57, 29, 130, 211>>,
                  <<23, 180, 158, 11, 131, 75>>,
                  <<21, 77, 198, 31, 204, 14>>,
                  <<24, 108, 45, 44, 58, 1>> >> ],
       [ name |-> "2x_dimmable",
         description |-> "2x Dimmable (mono) - 2 independent white channels",
         data |-> << <<16, 255, 255, 255, 255, 255>>,
                  <<80, 255, 255, 255, 255, 255>>,
                  <<0, 255, 255, 255, 255, 255>>,
                  <<0, 255, 255, 255, 255, 255>>,
                  <<0, 255, 255, 255, 255, 255>>,
                  <<0, 255, 255, 255, 255, 255>> >> ],
       [ name |-> "2x_cct",
         description |-> "2x CCT / Tunable White - 2 independent CCT lights",
         data |-> << <<17, 254, 66, 80, 217, 82>>,
                  <<18, 254, 185, 117, 29, 105>>,
                  <<81, 254, 66, 80, 217, 82>>,
                  <<82, 254, 185, 117, 29, 105>>,
                  <<0, 255, 255, 255, 255, 255>>,
                  <<0, 255, 255, 255, 255, 255>> >> ],
       [ name |-> "1x_rgb_1x_cct",
         description |-> "1x RGB + 1x CCT - Color + Tunable White",
         data |-> << <<19, 71, 6, 177, 239, 78>>,
                  <<20, 160, 57, 29, 130, 211>>,
                  <<21, 66, 198, 31, 204, 14>>,
                  <<0, 255, 255, 255, 255, 255>>,
                  <<81, 254, 66, 80, 217, 82>>,
                  <<82, 254, 185, 117, 29, 105>> >> ],
       [ name |-> "1x_rgbw_1x_cct",
         description |-> "1x RGBW + 1x CCT",
         data |-> << <<19, 71, 6, 177, 239, 78>>,
                  <<20, 160, 57, 29, 130, 211>>,
                  <<21, 66, 198, 31, 204, 14>>,
                  <<17, 254, 100, 97, 114, 96>>,
                  <<81, 254, 66, 80, 217, 82>>,
                  <<82, 254, 185, 117, 29, 105>> >> ],
       [ name |-> "2x_rgb",
         description |-> "2x RGB Color - 2 independent color lights",
         data |-> << <<19, 71, 6, 177, 239, 78>>,
                  <<20, 160, 57, 29, 130, 211>>,
                  <<21, 66, 198, 31, 204, 14>>,
                  <<83, 71, 6, 177, 239, 78>>,
                  <<84, 160, 57, 29, 130, 211>>,
                  <<85, 66, 198, 31, 204, 14>> >> ],
       [ name |-> "3x_dimmable",
         description |-> "3x Dimmable (mono)",
         data |-> << <<16, 255, 255, 255, 255, 255>>,
                  <<80, 255, 255, 255, 255, 255>>,
                  <<96, 255, 255, 255, 255, 255>>,
                  <<0, 255, 255, 255, 255, 255>>,
                  <<0, 255, 255, 255, 255, 255>>,
                  <<0, 255, 255, 255, 255, 255>> >> ],
       [ name |-> "3x_cct",
         description |-> "3x CCT / Tunable White",
         data |-> << <<17, 254, 66, 80, 217, 82>>,
                  <<18, 254, 185, 117, 29, 105>>,
                  <<81, 254, 66, 80, 217, 82>>,
                  <<82, 254, 185, 117, 29, 105>>,
                  <<97, 254, 66, 80, 217, 82>>,
                  <<98, 254, 185, 117, 29, 105>> >> ],
       [ name |-> "4x_dimmable",
         description |-> "4x Dimmable (mono)",
         data |-> << <<16, 255, 255, 255, 255, 255>>,
                  <<80, 255, 255, 255, 255, 255>>,
                  <<96, 255, 255, 255, 255, 255>>,
                  <<112, 255, 255, 255, 255, 255>>,
                  <<0, 255, 255, 255, 255, 255>>,
                  <<0, 255, 255, 255, 255, 255>> >> ],
       [ name |-> "5x_dimmable",
         description |-> "5x Dimmable (mono)",
         data |-> << <<16, 255, 255, 255, 255, 255>>,
                  <<80, 255, 255, 255, 255, 255>>,
                  <<96, 255, 255, 255, 255, 255>>,
                  <<112, 255, 255, 255, 255, 255>>,
                  <<128, 255, 255, 255, 255, 255>>,
                  <<0, 255, 255, 255, 255, 255>> >> ],
       [ name |-> "6x_dimmable",
         description |-> "6x Dimmable (mono)",
         data |-> << <<16, 255, 255, 255, 255, 255>>,
                  <<80, 255, 255, 255, 255, 255>>,
                  <<96, 255, 255, 255, 255, 255>>,
                  <<112, 255, 255, 255, 255, 255>>,
                  <<128, 255, 255, 255, 255, 255>>,
                  <<144, 255, 255, 255, 255, 255>> >> ] >>

OUTPUT_CONFIGURATIONS_ld6 ==
    << [ name |-> "1x_dimmable",
         description |-> "1x Dimmable (mono)",
         data |-> << <<16, 255, 255, 255, 255, 255>>,
                  <<0, 255, 255, 255, 255, 255>>,
                  <<0, 255, 255, 255, 255, 255>>,
                  <<0, 255, 255, 255, 255, 255>>,
                  <<0, 255, 255, 255, 255, 255>>,
                  <<0, 255, 255, 255, 255, 255>> >> ],
       [ name |-> "1x_cct",
         description |-> "1x CCT / Tunable White",
         data |-> << <<17, 254, 66, 80, 217, 82>>,
                  <<18, 254, 185, 117, 29, 105>>,
                  <<0, 255, 255, 255, 255, 255>>,
                  <<0, 255, 255, 255, 255, 255>>,
                  <<0, 255, 255, 255, 255, 255>>,
                  <<0, 255, 255, 255, 255, 255>> >> ],
       [ name |-> "1x_rgb",
         description |-> "1x RGB Color",
         data |-> << <<19, 71, 6, 177, 239, 78>>,
                  <<20, 160, 57, 29, 130, 211>>,
                  <<21, 66, 198, 31, 204, 14>>,
                  <<0, 255, 255, 255, 255, 255>>,
                  <<0, 255, 255, 255, 255, 255>>,
                  <<0, 255, 255, 255, 255, 255>> >> ],
       [ name |-> "1x_rgbw",
         description |-> "1x RGBW",
         data |-> << <<19, 71, 6, 177, 239, 78>>,
                  <<20, 160, 57, 29, 130, 211>>,
                  <<21, 66, 198, 31, 204, 14>>,
                  <<17, 254, 100, 97, 114, 96>>,
                  <<0, 255, 255, 255, 255, 255>>,
                  <<0, 255, 255, 255, 255, 255>> >> ],
       [ name |-> "1x_rgbww",
         description |-> "1x RGBWW",
         data |-> << <<19, 71, 6, 177, 239, 78>>,
                  <<20, 160, 57, 29, 130, 211>>,
                  <<21, 66, 198, 31, 204, 14>>,
                  <<17, 254, 66, 80, 217, 82>>,
                  <<18, 254, 185, 117, 29, 105>>,
                  <<0, 255, 255, 255, 255, 255>> >> ],
       [ name |-> "2x_dimmable",
         description |-> "2x Dimmable (mono)",
         data |-> << <<16, 255, 255, 255, 255, 255>>,
                  <<80, 255, 255, 255, 255, 255>>,
                  <<0, 255, 255, 255, 255, 255>>,
                  <<0, 255, 255, 255, 255, 255>>,
                  <<0, 255, 255, 255, 255, 255>>,
                  <<0, 255, 255, 255, 255, 255>> >> ],
       [ name |-> "2x_cct",
         description |-> "2x CCT / Tunable White",
         data |-> << <<17, 254, 66, 80, 217, 82>>,
                  <<18, 254, 185, 117, 29, 105>>,
                  <<81, 254, 66, 80, 217, 82>>,
                  <<82, 254, 185, 117, 29, 105>>,
                  <<0, 255, 255, 255, 255, 255>>,
                  <<0, 255, 255, 255, 255, 255>> >> ],
       [ name |-> "1x_rgb_1x_cct",
         description |-> "1x RGB + 1x CCT",
         data |-> << <<19, 71, 6, 177, 239, 78>>,
                  <<20, 160, 57, 29, 130, 211>>,
                  <<21, 66, 198, 31, 204, 14>>,
                  <<81, 254, 66, 80, 217, 82>>,
                  <<82, 254, 185, 117, 29, 105>>,
                  <<0, 255, 255, 255, 255, 255>> >> ],
       [ name |-> "1x_cct_1x_rgb",
         description |-> "1x CCT + 1x RGB",
         data |-> << <<17, 254, 66, 80, 217, 82>>,
                  <<18, 254, 185, 117, 29, 105>>,
                  <<83, 71, 6, 177, 239, 78>>,
                  <<84, 160, 57, 29, 130, 211>>,
                  <<85, 66, 198, 31, 204, 14>>,
                  <<0, 255, 255, 255, 255, 255>> >> ],
       [ name |-> "2x_rgb",
         description |-> "2x RGB Color",
         data |-> << <<19, 71, 6, 177, 239, 78>>,
                  <<20, 160, 57, 29, 130, 211>>,
                  <<21, 66, 198, 31, 204, 14>>,
                  <<83, 71, 6, 177, 239, 78>>,
                  <<84, 160, 57, 29, 130, 211>>,
                  <<85, 66, 198, 31, 204, 14>> >> ],
       [ name |-> "1x_rgbw_1x_cct",
         description |-> "1x RGBW + 1x CCT",
         data |-> << <<19, 71, 6, 177, 239, 78>>,
                  <<20, 160, 57, 29, 130, 211>>,
                  <<21, 66, 198, 31, 204, 14>>,
                  <<17, 254, 100, 97, 114, 96>>,
                  <<81, 254, 66, 80, 217, 82>>,
                  <<82, 254, 185, 117, 29, 105>> >> ],
       [ name |-> "3x_dimmable",
         description |-> "3x Dimmable (mono)",
         data |-> << <<16, 255, 255, 255, 255, 255>>,
                  <<80, 255, 255, 255, 255, 255>>,
                  <<96, 255, 255, 255, 255, 255>>,
                  <<0, 255, 255, 255, 255, 255>>,
                  <<0, 255, 255, 255, 255, 255>>,
                  <<0, 255, 255, 255, 255, 255>> >> ],
       [ name |-> "4x_dimmable",
         description |-> "4x Dimmable (mono)",
         data |-> << <<16, 255, 255, 255, 255, 255>>,
                  <<80, 255, 255, 255, 255, 255>>,
                  <<96, 255, 255, 255, 255, 255>>,
                  <<112, 255, 255, 255, 255, 255>>,
                  <<0, 255, 255, 255, 255, 255>>,
                  <<0, 255, 255, 255, 255, 255>> >> ],
       [ name |-> "5x_dimmable",
         description |-> "5x Dimmable (mono)",
         data |-> << <<16, 255, 255, 255, 255, 255>>,
                  <<80, 255, 255, 255, 255, 255>>,
                  <<96, 255, 255, 255, 255, 255>>,
                  <<112, 255, 255, 255, 255, 255>>,
                  <<128, 255, 255, 255, 255, 255>>,
                  <<0, 255, 255, 255, 255, 255>> >> ],
       [ name |-> "6x_dimmable",
         description |-> "6x Dimmable (mono)",
         data |-> << <<16, 255, 255, 255, 255, 255>>,
                  <<80, 255, 255, 255, 255, 255>>,
                  <<96, 255, 255, 255, 255, 255>>,
                  <<112, 255, 255, 255, 255, 255>>,
                  <<128, 255, 255, 255, 255, 255>>,
                  <<144, 255, 255, 255, 255, 255>> >> ] >>

\* Object.keys(OUTPUT_CONFIGURATIONS), in definition order
Keys(catalog) == [i \in 1..Len(catalog) |-> catalog[i].name]

-----------------------------------------------------------------------------
(* Binary codec (part_000)                                                 *)

RECURSIVE Flat(_)
\* Array.prototype.flat() on an array of byte arrays
Flat(arrs) == IF arrs = <<>> THEN <<>> ELSE Head(arrs) \o Flat(Tail(arrs))

\* buildOutputConfigPayload(data): header, then each element prefixed by its length
buildOutputConfigPayload(els) ==
    LET elements == [i \in 1..Len(els) |-> <<Len(els[i])>> \o els[i]]
    IN  <<72, 65, 6, 0>> \o Flat(elements)

\* Buffer.from(bytes).toString('hex'): two lower-case hex digits per byte
RECURSIVE toHex(_)
toHex(bytes) ==
    IF bytes = <<>> THEN <<>>
    ELSE <<Head(bytes) \div 16, Head(bytes) % 16>> \o toHex(Tail(bytes))

\* data[k] of JavaScript: the byte at 0-based index k, or -1 for undefined
ByteAt(buf, k) == IF k >= 0 /\ k < Len(buf) THEN buf[k + 1] ELSE -1

\* ToInt32 of a byte read: undefined converts to 0 under >> and &
ToInt32(b) == IF b < 0 THEN 0 ELSE b

\* const funcNames = [...]; funcNames[func] || 'unknown'
funcNames == <<"M", "CW", "WW", "R", "G", "B", "A", "T", "V", "F">>
\* funcName over a table that ends at 'V'
funcName_EightNames(func) == IF func + 1 <= 9 THEN funcNames[func + 1] ELSE "unknown"
funcName(func) == IF func + 1 <= Len(funcNames) THEN funcNames[func + 1] ELSE "unknown"

\* ParseChannel with the endpoint taken from the low nibble
ParseChannel_LowNibbleEndpoint(buf, i, offset) ==
    LET epFunc   == ToInt32(ByteAt(buf, offset + 1))
        endpoint == epFunc % 16
        func     == epFunc % 16
        flux     == ByteAt(buf, offset + 2)
    IN  [ channel  |-> i + 1,
          endpoint |-> IF endpoint = 0 THEN Null ELSE Num(endpoint),
          function |-> IF func = 0 /\ endpoint = 0 THEN "unused" ELSE funcName(func),
          flux     |-> IF flux = 255 THEN Str("default")
                       ELSE IF flux < 0 THEN Undefined ELSE Num(flux) ]

\* ParseChannel reporting every function code 0 as unused
ParseChannel_UnusedOnFuncZero(buf, i, offset) ==
    LET epFunc   == ToInt32(ByteAt(buf, offset + 1))
        endpoint == (epFunc \div 16) % 16
        func     == epFunc % 16
        flux     == ByteAt(buf, offset + 2)
    IN  [ channel  |-> i + 1,
          endpoint |-> IF endpoint = 0 THEN Null ELSE Num(endpoint),
          function |-> IF func = 0 THEN "unused" ELSE funcName(func),
          flux     |-> IF flux = 255 THEN Str("default")
                       ELSE IF flux < 0 THEN Undefined ELSE Num(flux) ]

\* the object pushed for one channel, parseOutputConfig lines 274-287
ParseChannel(buf, i, offset) ==
    LET epFunc   == ToInt32(ByteAt(buf, offset + 1))
        endpoint == (epFunc \div 16) % 16
        func     == epFunc % 16
        flux     == ByteAt(buf, offset + 2)
    IN  [ channel  |-> i + 1,
          endpoint |-> IF endpoint = 0 THEN Null ELSE Num(endpoint),
          function |-> IF func = 0 /\ endpoint = 0 THEN "unused" ELSE funcName(func),
          flux     |-> IF flux = 255 THEN Str("default")
                       ELSE IF flux < 0 THEN Undefined ELSE Num(flux) ]

\* the for loop of parseOutputConfig, lines 268-290
RECURSIVE ParseChannels(_, _, _)
ParseChannels(buf, i, offset) ==
    IF i >= 6 \/ offset >= Len(buf) THEN <<>>
    ELSE LET len == buf[offset + 1]
         IN  IF offset + len > Len(buf) THEN <<>>
             ELSE <<ParseChannel(buf, i, offset)>>
                  \o ParseChannels(buf, i + 1, offset + len + 1)

\* IdentifyFrom comparing only the header and the first element
IdentifyFrom_FirstElement(catalog, buf, k) ==
    LET same(j) == SubSeq(buf, 1, 11)
                     = SubSeq(buildOutputConfigPayload(catalog[j].data), 1, 11)
        hits    == { j \in k..Len(catalog) : same(j) }
    IN  IF hits = {} THEN 0 ELSE CHOOSE j \in hits : \A h \in hits : j <= h

\* IdentifyFrom comparing the elements and not the header
IdentifyFrom_SkipHeader(catalog, buf, k) ==
    LET same(j) == SubSeq(buf, 5, Len(buf))
                     = SubSeq(buildOutputConfigPayload(catalog[j].data), 5, 46)
        hits    == { j \in k..Len(catalog) : same(j) }
    IN  IF hits = {} THEN 0 ELSE CHOOSE j \in hits : \A h \in hits : j <= h

\* "Try to identify the mode": index of the first catalog entry whose payload
\* compares equal to the buffer, 0 when there is none
RECURSIVE IdentifyFrom(_, _, _)
IdentifyFrom(catalog, buf, k) ==
    IF k > Len(catalog) THEN 0
    ELSE IF buf = buildOutputConfigPayload(catalog[k].data) THEN k
    ELSE IdentifyFrom(catalog, buf, k + 1)

\* parseOutputConfig(data)
parseOutputConfig(buf) ==
    IF Len(buf) < 4 THEN Null
    ELSE LET k == IdentifyFrom(OUTPUT_CONFIGURATIONS_part000, buf, 1)
         IN  [ t           |-> "object",
               channels    |-> ParseChannels(buf, 0, 4),
               raw         |-> toHex(buf),
               mode        |-> IF k = 0 THEN "custom"
                               ELSE OUTPUT_CONFIGURATIONS_part000[k].name,
               description |-> IF k = 0 THEN "Custom configuration"
                               ELSE OUTPUT_CONFIGURATIONS_part000[k].description ]

\* hex digits: 0..15 are '0'..'9','a'..'f', 16..21 are 'A'..'F', 22 is any
\* character that is no hex digit
HexVal(c) == IF c <= 15 THEN c ELSE IF c <= 21 THEN c - 6 ELSE -1

\* Buffer.from(value, 'hex'): one byte per pair of hex digits, stopping at the
\* first pair that is not valid hex; a trailing single digit is dropped
RECURSIVE fromHex(_)
fromHex(s) ==
    IF Len(s) < 2 THEN <<>>
    ELSE LET hi == HexVal(s[1])
             lo == HexVal(s[2])
         IN  IF hi < 0 \/ lo < 0 THEN <<>>
             ELSE <<hi * 16 + lo>> \o fromHex(SubSeq(s, 3, Len(s)))

-----------------------------------------------------------------------------
(* Specification of the codec: a catalog entry is encoded, optionally one  *)
(* byte of the buffer is changed, and the buffer is parsed.                *)

CodecInit ==
    /\ origin \in 1..Len(OUTPUT_CONFIGURATIONS_part000)
    /\ data = buildOutputConfigPayload(OUTPUT_CONFIGURATIONS_part000[origin].data)
    /\ flipped = FALSE
    /\ result = Pending
    /\ rev = "part000"
    /\ devCfg = <<>>
    /\ cache = Undefined
    /\ req = Idle
    /\ io = <<>>
    /\ reply = Pending
    /\ eps = NoEndpoints
    /\ exposed = Pending
    /\ synced = "no"
    /\ served = 0
    /\ other = NoOther
    /\ shadow = <<>>
    /\ raced = FALSE
    /\ devOptions = 0
    /\ devMode = 0
    /\ metaState = NoState

\* the buffer of the catalog entry k
canonicalOf(k) == buildOutputConfigPayload(OUTPUT_CONFIGURATIONS_part000[k].data)

\* every byte value that occurs in some canonical payload of the catalog
CatalogBytes ==
    UNION { { p[j] : j \in 1..Len(p) } :
            p \in { buildOutputConfigPayload(OUTPUT_CONFIGURATIONS_part000[k].data) :
                     k \in 1..Len(OUTPUT_CONFIGURATIONS_part000) } }

\* the values a changed byte takes: every catalog byte, the two neighbours
\* of the byte it replaces (a calibration's fine tuning), and the byte with
\* each of the 16 function codes in its low nibble
FlipValues(old) ==
    CatalogBytes \cup {(old + 1) % 256, (old + 255) % 256}
        \cup { (old \div 16) * 16 + func : func \in 0..15 }

FlipByte ==
    /\ result = Pending
    /\ ~flipped
    /\ Len(data) = Len(canonicalOf(origin))
    /\ \E pos \in 1..Len(data) : \E b \in FlipValues(data[pos]) :
          /\ b # data[pos]
          /\ data' = [data EXCEPT ![pos] = b]
    /\ flipped' = TRUE
    /\ UNCHANGED <<origin, result>>
    /\ UNCHANGED gwVars

Parse ==
    /\ result = Pending
    /\ result' = parseOutputConfig(data)
    /\ UNCHANGED <<data, origin, flipped>>
    /\ UNCHANGED gwVars

\* a report that carries only the first n bytes of the buffer
Truncate ==
    /\ result = Pending
    /\ ~flipped
    /\ Len(data) = Len(canonicalOf(origin))
    /\ \E n \in 0..(Len(data) - 1) : data' = SubSeq(data, 1, n)
    /\ UNCHANGED <<origin, flipped, result>>
    /\ UNCHANGED gwVars

CodecNext == FlipByte \/ Truncate \/ Parse

SpecCodec == CodecInit /\ [][CodecNext]_vars

-----------------------------------------------------------------------------
(* Gateway: the toZigbee converters of both revisions.  A handler runs up  *)
(* to its next await in one step; the device's answer resumes it.          *)

Range(f) == { f[i] : i \in DOMAIN f }

\* the mode names the README documents (tables and examples)
READMEModes ==
    { "1x_dimmable", "1x_cct", "1x_rgb", "1x_rgbw", "1x_rgbww", "1x_extended_gamut",
      "2x_dimmable", "2x_cct", "1x_rgb_1x_cct", "1x_cct_1x_rgb", "1x_rgbw_1x_cct",
      "2x_rgb", "3x_dimmable", "3x_cct", "4x_dimmable", "5x_dimmable", "6x_dimmable" }

\* the OUTPUT_CONFIGURATIONS object of the installed revision
Catalog(r) == IF r = "part000" THEN OUTPUT_CONFIGURATIONS_part000
              ELSE OUTPUT_CONFIGURATIONS_ld6

\* OUTPUT_CONFIGURATIONS[value]: the index of the own property value, 0 if none
IndexOfKey(catalog, value) ==
    IF \E k \in 1..Len(catalog) : catalog[k].name = value
    THEN CHOOSE k \in 1..Len(catalog) : catalog[k].name = value
    ELSE 0

\* what a handler throws: the message text, the names the message lists and
\* the request field the message names
Error(text, names, field) == [t |-> "error", text |-> text, names |-> names, field |-> field]
\* what a handler returns
Ok(state) == [t |-> "ok", state |-> state]

\* endpoint.writeStructured(..., [{attrId: 0x0010, ..., elements}]) as issued
WriteStructured(elements) == [e |-> "writeStructured", elements |-> elements]
ReadAttr == [e |-> "read"]
Wait == [e |-> "wait"]

\* tzOutputConfiguration.convertSet, key output_mode, up to its first await
\* (part_000 lines 416-441)
SetOutputMode_part000(value) ==
    /\ rev = "part000"
    /\ req = Idle
    /\ LET k == IndexOfKey(OUTPUT_CONFIGURATIONS_part000, value)
       IN  IF k = 0
           THEN \* !config: throw, listing Object.keys(OUTPUT_CONFIGURATIONS)
                /\ req' = [op |-> "output_mode", pc |-> "done", value |-> value]
                /\ io' = <<>>
                /\ reply' = Error("Unknown output mode", Keys(OUTPUT_CONFIGURATIONS_part000), "output_mode")
           ELSE /\ req' = [op |-> "output_mode", pc |-> "write", value |-> value]
                /\ io' = <<WriteStructured(OUTPUT_CONFIGURATIONS_part000[k].data)>>
                /\ reply' = Pending
    /\ UNCHANGED <<rev, devCfg, cache>>
    /\ UNCHANGED codecVars
    /\ UNCHANGED attrVars
    /\ UNCHANGED raceVars
    /\ UNCHANGED hostVars

\* tzOutputConfiguration.convertSet up to its await (ubisys_ld6.mjs lines 52-57)
SetOutputMode_ld6(value) ==
    /\ rev = "ld6"
    /\ req = Idle
    /\ LET k == IndexOfKey(OUTPUT_CONFIGURATIONS_ld6, value)
       IN  IF k = 0
           THEN \* !config: throw `Unknown mode: ${value}`
                /\ req' = [op |-> "output_mode", pc |-> "done", value |-> value]
                /\ io' = <<>>
                /\ reply' = Error("Unknown mode", <<>>, "output_mode")
           ELSE /\ req' = [op |-> "output_mode", pc |-> "write", value |-> value]
                /\ io' = <<WriteStructured(OUTPUT_CONFIGURATIONS_ld6[k].data)>>
                /\ reply' = Pending
    /\ UNCHANGED <<rev, devCfg, cache>>
    /\ UNCHANGED codecVars
    /\ UNCHANGED attrVars
    /\ UNCHANGED raceVars
    /\ UNCHANGED hostVars

\* the elements of the write the request is waiting on
PendingWrite == io[Len(io)].elements

\* what the handler does once its write is acknowledged: the request's next
\* suspension point and what it returns
AfterWrite(r) ==
    IF r.op = "output_mode" /\ rev = "part000"
    THEN \* await new Promise(resolve => setTimeout(resolve, 3000)), line 444
         [req |-> [r EXCEPT !.pc = "wait"], io |-> io \o <<Wait>>, reply |-> Pending]
    ELSE IF r.op = "output_mode"
    THEN \* return { state: { output_mode: value } }, ubisys_ld6.mjs line 58
         [req |-> [r EXCEPT !.pc = "done"], io |-> io,
          reply |-> Ok([output_mode |-> r.value])]
    ELSE IF r.op = "output_configuration"
    THEN \* return { state: { output_configuration_raw: value } }, line 224
         [req |-> [r EXCEPT !.pc = "done"], io |-> io,
          reply |-> Ok([output_configuration_raw |-> r.value])]
    ELSE \* calibration, both revisions: return the status
         [req |-> [r EXCEPT !.pc = "done"], io |-> io,
          reply |-> Ok([calibration_status |-> r.cal.channel])]

\* the write fails (no answer, or an error status): the await throws and no
\* handler catches it
\* a handler that catches the rejection and issues its write once more
WriteFailed_Retry ==
    /\ req.pc = "write"
    /\ Len(io) < 3
    /\ io' = io \o <<io[Len(io)]>>
    /\ UNCHANGED <<rev, devCfg, cache, req, reply>>
    /\ UNCHANGED codecVars
    /\ UNCHANGED attrVars
    /\ UNCHANGED raceVars
    /\ UNCHANGED hostVars

\* the awaited write rejects: nothing catches it, the handler's promise
\* rejects with the error
WriteFailed ==
    /\ req.pc = "write"
    /\ req' = [req EXCEPT !.pc = "done"]
    /\ reply' = Error("write failed", <<>>, "")
    /\ UNCHANGED <<rev, devCfg, cache, io>>
    /\ UNCHANGED codecVars
    /\ UNCHANGED attrVars
    /\ UNCHANGED raceVars
    /\ UNCHANGED hostVars

\* the settling timer of part_000 elapses and the handler returns its state
\* (part_000 lines 444-456)
TimerFired ==
    /\ req.pc = "wait"
    /\ req' = [req EXCEPT !.pc = "done"]
    /\ reply' = IF req.op = "output_configuration"
                THEN \* return { state: { output_configuration_raw: value } }, line 471
                     Ok([output_configuration_raw |-> req.value])
                ELSE Ok([ output_mode |-> req.value,
                          output_mode_description |->
                              OUTPUT_CONFIGURATIONS_part000[
                                  IndexOfKey(OUTPUT_CONFIGURATIONS_part000, req.value)].description ])
    /\ UNCHANGED <<rev, devCfg, cache, io>>
    /\ UNCHANGED codecVars
    /\ UNCHANGED attrVars
    /\ UNCHANGED raceVars
    /\ UNCHANGED hostVars

-----------------------------------------------------------------------------
(* Calibration requests                                                    *)

\* a JSON number that is no integer: num/den with den > 0
Rat(num, den) == [t |-> "number", num |-> num, den |-> den]

\* the calibration value a request carries: what kind of value it is and, when
\* it is (the JSON text of) an object, the object's fields
CalValue(kind, cal) == [kind |-> kind, cal |-> cal]
NoCal == [channel |-> Undefined, flux |-> Undefined, x |-> Undefined, y |-> Undefined]

\* typeof value === 'string' ? JSON.parse(value) : value
\* "throws" when JSON.parse throws, else the type of the parsed value
ParsedKind(value) ==
    CASE value.kind \in {"object", "json_object"}     -> "object"
      [] value.kind \in {"empty_string", "invalid_json"} -> "throws"
      [] value.kind = "json_number"                   -> "number"
      [] value.kind = "json_null"                     -> "null"
      [] OTHER                                        -> "undefined"

\* the checks of part_000 lines 729-752: the error thrown, or Null when the
\* request passes them all
Validate_part000(value) ==
    LET cal == value.cal
    IN  IF ParsedKind(value) = "throws"
        THEN Error("Calibration value must be a valid JSON string", <<>>, "value")
        ELSE IF ParsedKind(value) # "object"
        THEN Error("Calibration value must be a JSON object", <<>>, "value")
        ELSE IF cal.channel = Undefined
        THEN Error("Calibration must specify channel (1-6)", <<>>, "channel")
        ELSE IF cal.channel.v - 1 < 0 \/ cal.channel.v - 1 > 5
        THEN Error("Invalid channel index (1-6)", <<>>, "channel")
        ELSE IF cal.flux # Undefined /\ (cal.flux.v < 0 \/ cal.flux.v > 254)
        THEN Error("Flux must be a number between 0 and 254", <<>>, "flux")
        ELSE IF cal.x # Undefined /\ (cal.x.num < 0 \/ cal.x.num > cal.x.den)
        THEN Error("CIE x must be a number between 0.0 and 1.0", <<>>, "x")
        ELSE IF cal.y # Undefined /\ (cal.y.num < 0 \/ cal.y.num > cal.y.den)
        THEN Error("CIE y must be a number between 0.0 and 1.0", <<>>, "y")
        ELSE Null

\* Validate_ld6 with the channel range starting at 0
Validate_ld6_FromZero(value) ==
    LET cal == value.cal
    IN  IF value.kind \in {"undefined", "empty_string"} \/ ParsedKind(value) = "throws"
        THEN Error("Invalid calibration JSON", <<>>, "value")
        ELSE IF ParsedKind(value) # "object"
        THEN Error("Calibration must be a JSON object", <<>>, "value")
        ELSE IF cal.channel = Undefined \/ cal.channel.v < 0 \/ cal.channel.v > 6
        THEN Error("Calibration must specify a channel between 1 and 6", <<>>, "channel")
        ELSE Null

\* the checks of ubisys_ld6.mjs lines 301-317
Validate_ld6(value) ==
    LET cal == value.cal
    IN  IF value.kind \in {"undefined", "empty_string"} \/ ParsedKind(value) = "throws"
        THEN Error("Invalid calibration JSON", <<>>, "value")
        ELSE IF ParsedKind(value) # "object"
        THEN Error("Calibration must be a JSON object", <<>>, "value")
        ELSE IF cal.channel = Undefined \/ cal.channel.v < 1 \/ cal.channel.v > 6
        THEN Error("Calibration must specify a channel between 1 and 6", <<>>, "channel")
        ELSE Null

Validate(r, value) == IF r = "part000" THEN Validate_part000(value) ELSE Validate_ld6(value)

\* tzCalibration.convertSet up to its first await, the read of the device's
\* configuration (part_000 lines 727-755, ubisys_ld6.mjs lines 300-320)
SetCalibration(value) ==
    /\ req = Idle
    /\ LET err == Validate(rev, value)
       IN  IF err # Null
           THEN /\ req' = [op |-> "calibration", pc |-> "done",
                           parsed |-> ParsedKind(value),
                           cal |-> value.cal, resp |-> Undefined]
                /\ io' = <<>>
                /\ reply' = err
           ELSE /\ req' = [op |-> "calibration", pc |-> "read",
                           parsed |-> ParsedKind(value),
                           cal |-> value.cal, resp |-> Undefined]
                /\ io' = <<ReadAttr>>
                /\ reply' = Pending
    /\ UNCHANGED <<rev, devCfg, cache>>
    /\ UNCHANGED codecVars
    /\ UNCHANGED attrVars
    /\ UNCHANGED raceVars
    /\ UNCHANGED hostVars

\* el[k] = v on a Buffer: the value is stored modulo 256, and an index past
\* the end of the buffer is ignored
SetByte(el, k, v) == IF k < Len(el) THEN [el EXCEPT ![k + 1] = v % 256] ELSE el

\* Math.round(c * 65536) for the number c: the floor of c * 65536 + 1/2,
\* computed in two steps of 8 bits to stay within 32 bits
Round65536(c) ==
    LET a == c.num * 256
    IN  (a \div c.den) * 256 + (2 * (a % c.den) * 256 + c.den) \div (2 * c.den)

\* the body of the map callback for the target channel
\* (part_000 lines 767-779, ubisys_ld6.mjs lines 329-339)
PatchElement(el, cal) ==
    LET e1 == IF cal.flux # Undefined THEN SetByte(el, 1, cal.flux.v) ELSE el
        x  == Round65536(cal.x)
        e2 == IF cal.x # Undefined
              THEN SetByte(SetByte(e1, 2, x % 256), 3, (x \div 256) % 256)
              ELSE e1
        y  == Round65536(cal.y)
        e3 == IF cal.y # Undefined
              THEN SetByte(SetByte(e2, 4, y % 256), 5, (y \div 256) % 256)
              ELSE e2
    IN  e3

\* CalibratedElements patching the element after the target channel's
CalibratedElements_NextChannel(resp, cal) ==
    [i \in 1..Len(resp) |->
        IF i - 1 = cal.channel.v THEN PatchElement(resp[i], cal) ELSE resp[i]]

\* resp.outputConfigurations.map((buf, i) => ...)
\* (part_000 lines 761-782, ubisys_ld6.mjs lines 326-342)
CalibratedElements(resp, cal) ==
    [i \in 1..Len(resp) |->
        IF i - 1 = cal.channel.v - 1 THEN PatchElement(resp[i], cal) ELSE resp[i]]

\* the device accepts the write: the attribute takes the written elements and
\* the handler resumes; the history takes the request as completed
WriteAcked ==
    /\ req.pc = "write"
    /\ io[Len(io)].e = "writeStructured"
    /\ devCfg' = PendingWrite
    /\ LET n == AfterWrite(req)
       IN  /\ req' = n.req
           /\ io' = n.io
           /\ reply' = n.reply
    /\ synced' = "no"
    /\ shadow' = IF req.op = "calibration"
                 THEN CalibratedElements(shadow, req.cal)
                 ELSE PendingWrite
    /\ raced' = (raced \/ (other.req.op = "calibration" /\ other.req.pc = "write"))
    /\ UNCHANGED <<rev, cache, eps, exposed, served, other>>
    /\ UNCHANGED codecVars
    /\ UNCHANGED attrVars

\* the attribute value as the host keeps it
Array(v) == [t |-> "array", v |-> v]

\* AfterRead patching the value the host has stored instead of the answer
AfterRead_FromStored(r, resp) ==
    LET base == IF cache # Undefined THEN cache.v ELSE resp
    IN  IF r.op = "calibration"
        THEN [req |-> [r EXCEPT !.pc = "write", !.resp = base],
              io |-> io \o <<WriteStructured(CalibratedElements(base, r.cal))>>,
              reply |-> Pending]
        ELSE [req |-> [r EXCEPT !.pc = "done"], io |-> io, reply |-> Ok(Undefined)]

\* what the handler does once its read is answered with resp: a calibration
\* patches the elements and issues its write, convertGet and configure return
AfterRead(r, resp) ==
    IF r.op = "calibration"
    THEN [req |-> [r EXCEPT !.pc = "write", !.resp = resp],
          io |-> io \o <<WriteStructured(CalibratedElements(resp, r.cal))>>,
          reply |-> Pending]
    ELSE [req |-> [r EXCEPT !.pc = "done"], io |-> io, reply |-> Ok(Undefined)]

\* a read or report following a write brings the host up to date
Synced(h) == IF h = "no" THEN "read" ELSE h

\* the device answers the read with its configuration: the host stores the
\* value and the handler resumes
ReadAnswered ==
    /\ req.pc = "read"
    /\ cache' = Array(devCfg)
    /\ synced' = Synced(synced)
    /\ LET n == AfterRead(req, devCfg)
       IN  /\ req' = n.req
           /\ io' = n.io
           /\ reply' = n.reply
    /\ UNCHANGED <<rev, devCfg, eps, exposed, served>>
    /\ UNCHANGED codecVars
    /\ UNCHANGED attrVars
    /\ UNCHANGED raceVars

\* the device answers the read without the attribute: the calibration
\* handler throws (part_000 lines 757-759, ubisys_ld6.mjs lines 321-323),
\* convertGet and configure return
ReadAnsweredEmpty ==
    /\ req.pc = "read"
    /\ req' = [req EXCEPT !.pc = "done"]
    /\ reply' = IF req.op # "calibration" THEN Ok(Undefined)
                ELSE Error(IF rev = "part000"
                           THEN "Device reported invalid configuration format"
                           ELSE "Could not read current output configurations from device",
                           <<>>, "")
    /\ UNCHANGED <<rev, devCfg, cache, io>>
    /\ UNCHANGED codecVars
    /\ UNCHANGED attrVars
    /\ UNCHANGED raceVars
    /\ UNCHANGED hostVars

\* the read fails: the await throws; configure catches it
\* (ubisys_ld6.mjs line 443), no other handler does
ReadFailed ==
    /\ req.pc = "read"
    /\ req' = [req EXCEPT !.pc = "done"]
    /\ reply' = IF req.op = "configure" THEN Ok(Undefined)
                ELSE Error("read failed", <<>>, "")
    /\ UNCHANGED <<rev, devCfg, cache, io>>
    /\ UNCHANGED codecVars
    /\ UNCHANGED attrVars
    /\ UNCHANGED raceVars
    /\ UNCHANGED hostVars

-----------------------------------------------------------------------------
(* Host view: the light features exposes derives (ubisys_ld6.mjs)          *)

Abs(v) == IF v < 0 THEN -v ELSE v

\* the value Math.round(1000000 / cct) takes when cct is 0
Infinity == 2147483647

\* Math.round(m / c) for integers m >= 0 and c # 0: halves round upwards
RoundedQuotient(m, c) ==
    IF c > 0 THEN (2 * m + c) \div (2 * c) ELSE (-(2 * m) - c) \div (-(2 * c))

\* CctFine without the cubic term
CctFine_NoCubic(s, n4) ==
    LET h    == n4 \div 100
        l    == n4 % 100
        sq   == h * h + (200 * h * l + l * l) \div 10000
    IN  35250 * (sq \div 1000) + (3525 * (sq % 1000)) \div 100
          + s * (68233 * (n4 \div 1000) + (68233 * (n4 % 1000)) \div 1000)
          + 552033

\* 449 n^3 + 3525 n^2 + 6823.3 n + 5520.33 in units of 1/100, for
\* n = s * n4 / 10000 with n4 < 100000
CctFine(s, n4) ==
    LET h    == n4 \div 100
        l    == n4 % 100
        sq   == h * h + (200 * h * l + l * l) \div 10000
        cube == (sq * h) \div 100 + (((sq * h) % 100) * 100 + sq * l) \div 10000
    IN  s * (4490 * (cube \div 1000) + (449 * (cube % 1000)) \div 100)
          + 35250 * (sq \div 1000) + (3525 * (sq % 1000)) \div 100
          + s * (68233 * (n4 \div 1000) + (68233 * (n4 % 1000)) \div 1000)
          + 552033

\* the same polynomial in units of 1, for n4 >= 100000
CctCoarse(s, n4) ==
    LET n2    == n4 \div 100
        sq0   == n2 * n2
        cube1 == (sq0 \div 100) * n2
    IN  s * ((449 * (cube1 \div 100)) \div 100) + (3525 * (sq0 \div 100)) \div 100
          + s * ((6823 * n2) \div 100) + 5520

\* xyToMireds(x, y) for x = X / 65536 and y = Y / 65536, evaluated in fixed
\* point within 32 bits: n truncated to four decimal places, cct to two. The
\* result equals the double evaluation for every chromaticity the
\* specifications draw; elsewhere it can be off by one mired.
xyToMireds(X, Y) ==
    LET P  == 625 * X - 13598720
        Q  == 7610368 - 625 * Y
        s  == IF (P >= 0) = (Q > 0) THEN 1 ELSE -1
        a  == Abs(P)
        b  == Abs(Q)
        ni == a \div b
        r0 == a % b
        r1 == (r0 * 10) % b
        r2 == (r1 * 10) % b
        r3 == (r2 * 10) % b
        n4 == ni * 10000 + ((r0 * 10) \div b) * 1000 + ((r1 * 10) \div b) * 100
                + ((r2 * 10) \div b) * 10 + (r3 * 10) \div b
    IN  IF ni >= 30 THEN 0
        ELSE IF n4 >= 100000
        THEN LET c == CctCoarse(s, n4)
             IN  IF c = 0 THEN Infinity ELSE RoundedQuotient(1000000, c)
        ELSE LET c == CctFine(s, n4)
             IN  IF c = 0 THEN Infinity ELSE RoundedQuotient(100000000, c)

\* el[k] under | and >>: an index past the end reads undefined, which is 0
ElByte(el, k) == ToInt32(ByteAt(el, k))

\* the mireds assigned by the last element of the configuration that is on
\* endpoint epNum with function func; Undefined when there is none
\* (the forEach of lines 399-411)
LastMireds(configs, epNum, func) ==
    LET hits == { i \in 1..Len(configs) :
                    /\ (ElByte(configs[i], 0) \div 16) % 16 = epNum
                    /\ ElByte(configs[i], 0) % 16 = func }
    IN  IF hits = {} THEN Undefined
        ELSE LET el == configs[CHOOSE i \in hits : \A j \in hits : j <= i]
             IN  Num(xyToMireds(ElByte(el, 2) + 256 * ElByte(el, 3),
                                ElByte(el, 4) + 256 * ElByte(el, 5)))

\* a number in a condition: undefined and 0 are false
Truthy(m) == m # Undefined /\ m.v # 0

\* a colour temperature range [lo, hi]
MiredRange(lo, hi) == [t |-> "range", lo |-> lo, hi |-> hi]

\* step 2 of exposes, lines 396-415: the range for the light on endpoint epNum
ColorTempRange(outputConfigs, epNum) ==
    IF outputConfigs = Undefined THEN MiredRange(153, 500)
    ELSE LET cwMireds == LastMireds(outputConfigs.v, epNum, 1)
             wwMireds == LastMireds(outputConfigs.v, epNum, 2)
         IN  IF Truthy(cwMireds) /\ Truthy(wwMireds)
             THEN MiredRange(IF cwMireds.v <= wwMireds.v THEN cwMireds.v ELSE wwMireds.v,
                             IF cwMireds.v <= wwMireds.v THEN wwMireds.v ELSE cwMireds.v)
             ELSE MiredRange(153, 500)

\* what the host knows of one endpoint: colorCapabilities, colorTemperature
\* and currentX of lightingColorCtrl (Undefined when never read), and the
\* input clusters the endpoint supports
Endpoint(caps, colorTemperature, currentX, clusters) ==
    [ t |-> "endpoint", colorCapabilities |-> caps,
      colorTemperature |-> colorTemperature, currentX |-> currentX,
      inputClusters |-> clusters ]

Light(type, range) == [t |-> "light", type |-> type, range |-> range]

\* the body of the forEach of exposes for an endpoint that exists, lines 385-429
LightExpose(ep, epNum, outputConfigs) ==
    LET caps          == ep.colorCapabilities
        hasColorTemp  == IF caps # Undefined THEN (caps.v \div 16) % 2 = 1
                         ELSE ep.colorTemperature # Undefined
        hasColorXY    == IF caps # Undefined THEN (caps.v \div 8) % 2 = 1
                         ELSE ep.currentX # Undefined
        hasBrightness == "genLevelCtrl" \in ep.inputClusters
        hasOnOff      == "genOnOff" \in ep.inputClusters
    IN  IF hasColorTemp
        THEN Light(IF hasColorXY THEN "light_brightness_colortemp_colorxy"
                   ELSE "light_brightness_colortemp",
                   ColorTempRange(outputConfigs, epNum))
        ELSE IF hasColorXY THEN Light("light_brightness_colorxy", Undefined)
        ELSE IF hasBrightness THEN Light("light_brightness", Undefined)
        ELSE IF hasOnOff THEN Light("light_onoff", Undefined)
        ELSE Null

\* exposes keeping the features of its first evaluation
exposes_Memo(outputConfigs) ==
    IF exposed # Pending THEN exposed.lights
    ELSE [epNum \in LightEndpoints |->
            IF eps[epNum] = Null THEN Null
            ELSE LightExpose(eps[epNum], epNum, outputConfigs)]

\* the light features definition.exposes pushes, by endpoint (lines 377-432);
\* outputConfigs is the stored attribute value of the setup endpoint
exposes(outputConfigs) ==
    [epNum \in LightEndpoints |->
        IF eps[epNum] = Null THEN Null
        ELSE LightExpose(eps[epNum], epNum, outputConfigs)]

-----------------------------------------------------------------------------
(* Host and device actions of a session (ubisys_ld6.mjs)                   *)

\* the host evaluates definition.exposes
Exposes ==
    /\ rev = "ld6"
    /\ exposed' = [from |-> cache, lights |-> exposes(cache)]
    /\ synced' = IF synced = "no" THEN "no" ELSE "shown"
    /\ UNCHANGED <<rev, devCfg, cache, req, io, reply, eps, served>>
    /\ UNCHANGED codecVars
    /\ UNCHANGED attrVars
    /\ UNCHANGED raceVars

\* the device reports its outputConfigurations attribute: the host stores it
Report ==
    /\ cache' = Array(devCfg)
    /\ synced' = Synced(synced)
    /\ UNCHANGED <<rev, devCfg, req, io, reply, eps, exposed, served>>
    /\ UNCHANGED codecVars
    /\ UNCHANGED attrVars
    /\ UNCHANGED raceVars

\* fzOutputConfiguration.convert of ubisys_ld6.mjs, lines 37-47: the state a
\* report of the elements outputConfigurations publishes
fzOutputConfiguration(outputConfigurations) ==
    LET elements == [i \in 1..Len(outputConfigurations) |->
                        <<Len(outputConfigurations[i])>> \o outputConfigurations[i]]
    IN  [output_configuration_raw |-> toHex(<<72, 65, 6, 0>> \o Flat(elements))]

\* convertGet of output_configuration, lines 226-228
GetOutputConfiguration ==
    /\ rev = "ld6"
    /\ req = Idle
    /\ req' = [op |-> "get", pc |-> "read"]
    /\ io' = <<ReadAttr>>
    /\ UNCHANGED <<rev, devCfg, cache, reply>>
    /\ UNCHANGED codecVars
    /\ UNCHANGED attrVars
    /\ UNCHANGED raceVars
    /\ UNCHANGED hostVars

\* definition.configure, lines 435-445
Configure ==
    /\ rev = "ld6"
    /\ req = Idle
    /\ req' = [op |-> "configure", pc |-> "read"]
    /\ io' = <<ReadAttr>>
    /\ UNCHANGED <<rev, devCfg, cache, reply>>
    /\ UNCHANGED codecVars
    /\ UNCHANGED attrVars
    /\ UNCHANGED raceVars
    /\ UNCHANGED hostVars

\* payload.slice(from, to): both ends clamped to the buffer
Slice(buf, from, to) ==
    SubSeq(buf, from + 1, IF to > Len(buf) THEN Len(buf) ELSE to)

\* the while loop of convertSet output_configuration, lines 218-222
RECURSIVE SplitElements(_, _)
SplitElements(payload, offset) ==
    IF offset >= Len(payload) THEN <<>>
    ELSE LET len == payload[offset + 1]
         IN  <<Slice(payload, offset + 1, offset + 1 + len)>>
             \o SplitElements(payload, offset + len + 1)

\* convertSet of output_configuration up to its await, lines 213-223
SetOutputConfiguration(value) ==
    /\ rev = "ld6"
    /\ req = Idle
    /\ req' = [op |-> "output_configuration", pc |-> "write", value |-> value]
    /\ io' = <<WriteStructured(SplitElements(fromHex(value), 4))>>
    /\ reply' = Pending
    /\ UNCHANGED <<rev, devCfg, cache>>
    /\ UNCHANGED codecVars
    /\ UNCHANGED attrVars
    /\ UNCHANGED raceVars
    /\ UNCHANGED hostVars

-----------------------------------------------------------------------------
(* The other set requests: raw configuration of part_000, inputs, options  *)

\* endpoint.write / writeStructured of an attribute other than a structured
\* outputConfigurations array
WriteAttribute(attr, value) == [e |-> "write", attr |-> attr, value |-> value]

\* convertSet of output_configuration in part_000 up to its first await
\* (lines 459-467): the bytes of the hex string are written as a flat array
SetOutputConfiguration_part000(value) ==
    /\ rev = "part000"
    /\ req = Idle
    /\ req' = [op |-> "output_configuration", pc |-> "write", value |-> value]
    /\ io' = <<WriteAttribute("outputConfigurations", fromHex(value))>>
    /\ reply' = Pending
    /\ UNCHANGED <<rev, devCfg, cache>>
    /\ UNCHANGED codecVars
    /\ UNCHANGED attrVars
    /\ UNCHANGED raceVars
    /\ UNCHANGED hostVars

\* the flat write of part_000 is acknowledged and the settling wait starts
\* (line 469). What the device makes of a flat byte array is not determined by
\* the converter: it keeps its configuration or takes the elements the bytes
\* spell.
RawWriteAcked_part000 ==
    /\ req.pc = "write"
    /\ req.op = "output_configuration"
    /\ io[Len(io)].e = "write"
    /\ devCfg' \in {devCfg, SplitElements(io[Len(io)].value, 4)}
    /\ shadow' = devCfg'
    /\ synced' = "no"
    /\ req' = [req EXCEPT !.pc = "wait"]
    /\ io' = io \o <<Wait>>
    /\ UNCHANGED <<rev, cache, reply, eps, exposed, served, other, raced>>
    /\ UNCHANGED codecVars
    /\ UNCHANGED attrVars

\* convertSet of input_configurations up to its await
\* (part_000 lines 486-499, ubisys_ld6.mjs lines 232-234)
SetInputConfigurations(value) ==
    /\ req = Idle
    /\ req' = [op |-> "input_configurations", pc |-> "write", value |-> value]
    /\ io' = <<WriteAttribute("inputConfigurations",
                  IF rev = "part000" THEN value
                  ELSE [i \in 1..Len(value) |-> <<value[i] % 256>>])>>
    /\ reply' = Pending
    /\ UNCHANGED <<rev, devCfg, cache>>
    /\ UNCHANGED codecVars
    /\ UNCHANGED attrVars
    /\ UNCHANGED raceVars
    /\ UNCHANGED hostVars

\* convertSet of input_actions up to its await
\* (part_000 lines 502-516, ubisys_ld6.mjs lines 243-245)
SetInputActions(value) ==
    /\ req = Idle
    /\ req' = [op |-> "input_actions", pc |-> "write", value |-> value]
    /\ io' = <<WriteAttribute("inputActions",
                  IF rev = "part000" THEN value
                  ELSE [i \in 1..Len(value) |-> fromHex(value[i])])>>
    /\ reply' = Pending
    /\ UNCHANGED <<rev, devCfg, cache>>
    /\ UNCHANGED codecVars
    /\ UNCHANGED attrVars
    /\ UNCHANGED raceVars
    /\ UNCHANGED hostVars

\* the option keys in bit order: the first three are the keys of part_000
\* (line 551), all five the bitMapping of ubisys_ld6.mjs (lines 259-265)
AdvancedOptionKeys ==
    << "advanced_options_no_color_white",
       "advanced_options_no_first_white_color",
       "advanced_options_no_second_white_color",
       "advanced_options_ignore_color_temp_range",
       "advanced_options_constant_luminous_flux" >>

\* the keys the revision r converts
OptionKeys(r) == IF r = "part000" THEN SubSeq(AdvancedOptionKeys, 1, 3) ELSE AdvancedOptionKeys

RECURSIVE MaskFrom(_, _, _, _, _)
\* the bits of bitMapping from index k on (index 0 is bit 0)
MaskFrom(state, key, value, bitMapping, k) ==
    IF k > Len(bitMapping) THEN 0
    ELSE LET val == IF key = bitMapping[k] THEN value ELSE state[bitMapping[k]]
         IN  (IF val THEN 2 ^ (k - 1) ELSE 0) + MaskFrom(state, key, value, bitMapping, k + 1)

\* resolveAdvancedOptions(state, key, value, bitMapping), ubisys_ld6.mjs lines
\* 108-115; part_000 lines 553-561 compute the same over its three keys
resolveAdvancedOptions(state, key, value, bitMapping) ==
    MaskFrom(state, key, value, bitMapping, 1)

\* convertSet of an advanced option up to its await
\* (part_000 lines 552-563, ubisys_ld6.mjs lines 257-267)
SetAdvancedOption(key, value, state) ==
    /\ req = Idle
    /\ key \in Range(OptionKeys(rev))
    /\ req' = [op |-> key, pc |-> "write", value |-> value]
    /\ io' = <<WriteAttribute("advancedOptions",
                  resolveAdvancedOptions(state, key, value, OptionKeys(rev)))>>
    /\ reply' = Pending
    /\ UNCHANGED <<rev, devCfg, cache>>
    /\ UNCHANGED codecVars
    /\ UNCHANGED attrVars
    /\ UNCHANGED raceVars
    /\ UNCHANGED hostVars

\* the write of an input or option attribute is acknowledged: the device
\* holds the value written, and the handler returns { state: { [key]: value } }
AttributeWriteAcked ==
    /\ req.pc = "write"
    /\ req.op # "output_configuration"
    /\ io[Len(io)].e = "write"
    /\ req' = [req EXCEPT !.pc = "done"]
    /\ reply' = Ok(req.op :> req.value)
    /\ devOptions' = IF io[Len(io)].attr = "advancedOptions" THEN io[Len(io)].value
                     ELSE devOptions
    /\ UNCHANGED <<rev, devCfg, cache, io, devMode, metaState>>
    /\ UNCHANGED codecVars
    /\ UNCHANGED raceVars
    /\ UNCHANGED hostVars

-----------------------------------------------------------------------------
(* Specification of a single set request: a device holding some catalog    *)
(* configuration serves one set request.                                   *)

MaxChannelInput == 7

ModeInputs ==
    Range(Keys(OUTPUT_CONFIGURATIONS_part000)) \cup Range(Keys(OUTPUT_CONFIGURATIONS_ld6))
        \cup READMEModes \cup {"nonexistent_mode"}

ChannelInputs == {Undefined} \cup { Num(c) : c \in 0..MaxChannelInput }
FluxInputs    == {Undefined, Num(0), Num(254), Num(255), Num(300), Num(-1)}
XInputs       == {Undefined, Rat(3127, 10000), Rat(99999, 100000), Rat(1, 1), Rat(3, 2), Rat(-1, 10)}
YInputs       == {Undefined, Rat(3290, 10000), Rat(3, 2)}

CalibrationInputs ==
    { CalValue(k, NoCal) :
        k \in {"undefined", "empty_string", "invalid_json", "json_number", "json_null"} }
    \cup { CalValue(k, c) :
             k \in {"object", "json_object"},
             c \in [channel : ChannelInputs, flux : FluxInputs, x : XInputs, y : YInputs] }

\* a device whose array holds only the first two elements of 1x_cct, as a
\* set of output_configuration with a two-element payload leaves it
ShortConfiguration(r) == SubSeq(Catalog(r)[IndexOfKey(Catalog(r), "1x_cct")].data, 1, 2)

RequestInit ==
    /\ rev \in {"part000", "ld6"}
    /\ devCfg \in { Catalog(rev)[k].data : k \in 1..Len(Catalog(rev)) }
                     \cup { ShortConfiguration(rev) }
    /\ cache = Undefined
    /\ req = Idle
    /\ io = <<>>
    /\ reply = Pending
    /\ eps = NoEndpoints
    /\ exposed = Pending
    /\ synced = "no"
    /\ served = 0
    /\ other = NoOther
    /\ shadow = devCfg
    /\ raced = FALSE
    /\ devOptions = 0
    /\ devMode = 0
    /\ metaState = NoState
    /\ data = <<>>
    /\ origin = 0
    /\ flipped = FALSE
    /\ result = Pending

\* a catalog configuration as a hex string, whole and with its last element
\* cut short
RawInputs ==
    LET p == buildOutputConfigPayload(
                 OUTPUT_CONFIGURATIONS_ld6[IndexOfKey(OUTPUT_CONFIGURATIONS_ld6, "1x_rgb")].data)
    IN  { toHex(p), toHex(SubSeq(p, 1, Len(p) - 3)) }

\* one byte per input: 0x00 enabled, 0x40 inverted, 0x80 disabled
InputConfigurationInputs == { <<0, 0, 0>>, <<0, 64, 128>> }

\* raw input actions as hex strings
InputActionInputs == { <<>>, <<toHex(<<0, 13, 1, 6, 0, 2>>), toHex(<<65, 13, 1, 6, 0, 2>>)>> }

OptionStates == [Range(AdvancedOptionKeys) -> BOOLEAN]

RequestNext ==
    \/ \E value \in ModeInputs : SetOutputMode_part000(value)
    \/ \E value \in ModeInputs : SetOutputMode_ld6(value)
    \/ \E value \in RawInputs : SetOutputConfiguration_part000(value)
    \/ \E value \in RawInputs : SetOutputConfiguration(value)
    \/ \E value \in CalibrationInputs : SetCalibration(value)
    \/ \E value \in InputConfigurationInputs : SetInputConfigurations(value)
    \/ \E value \in InputActionInputs : SetInputActions(value)
    \/ \E key \in Range(AdvancedOptionKeys), value \in BOOLEAN, state \in OptionStates :
           SetAdvancedOption(key, value, state)
    \/ ReadAnswered
    \/ ReadAnsweredEmpty
    \/ ReadFailed
    \/ WriteAcked
    \/ RawWriteAcked_part000
    \/ AttributeWriteAcked
    \/ WriteFailed
    \/ TimerFired

SpecRequest == RequestInit /\ [][RequestNext]_vars

-----------------------------------------------------------------------------
(* Specification of a session: the host serves requests one after another, *)
(* the device reports, and the host evaluates exposes at any time.         *)

MaxServed == 2

\* the request's promise settles and the host is ready for the next request
Return ==
    /\ req.pc = "done"
    /\ served < MaxServed
    /\ req' = Idle
    /\ io' = <<>>
    /\ reply' = Pending
    /\ served' = served + 1
    /\ UNCHANGED <<rev, devCfg, cache, eps, exposed, synced>>
    /\ UNCHANGED codecVars
    /\ UNCHANGED attrVars
    /\ UNCHANGED raceVars

\* D65 and a warm white, as the README's calibration example gives them
CoolWhite == [x |-> Rat(3127, 10000), y |-> Rat(3290, 10000)]
WarmWhite == [x |-> Rat(4578, 10000), y |-> Rat(4101, 10000)]
\* a saturated purplish red, far from the locus of whites
Magenta   == [x |-> Rat(6, 10), y |-> Rat(22, 100)]

SessionModes == {"1x_cct", "1x_dimmable", "nonexistent_mode"}

SessionCalibrations ==
    { CalValue("json_object", [channel |-> Num(c), flux |-> Undefined, x |-> w.x, y |-> w.y]) :
        c \in 1..2, w \in {CoolWhite, WarmWhite, Magenta} }

\* 2x_cct as the catalog has it, and the same with the last element cut short
SessionRawValues ==
    LET p == buildOutputConfigPayload(
                 OUTPUT_CONFIGURATIONS_ld6[IndexOfKey(OUTPUT_CONFIGURATIONS_ld6, "2x_cct")].data)
    IN  { toHex(p), toHex(SubSeq(p, 1, Len(p) - 3)) }

\* a CCT light on endpoint 1 and a light on endpoint 5 whose capabilities
\* were never read; or one light of each kind
DeviceProfiles ==
    { [epNum \in LightEndpoints |->
         CASE epNum = 1 -> Endpoint(Num(16), Undefined, Undefined, {"genOnOff", "genLevelCtrl"})
           [] epNum = 5 -> Endpoint(Undefined, Num(250), Num(0), {"genOnOff", "genLevelCtrl"})
           [] OTHER     -> Null],
      [epNum \in LightEndpoints |->
         CASE epNum = 1 -> Endpoint(Num(24), Undefined, Undefined, {"genOnOff", "genLevelCtrl"})
           [] epNum = 5 -> Endpoint(Num(8), Undefined, Undefined, {"genOnOff", "genLevelCtrl"})
           [] epNum = 6 -> Endpoint(Undefined, Undefined, Undefined, {"genOnOff", "genLevelCtrl"})
           [] epNum = 7 -> Endpoint(Undefined, Undefined, Undefined, {"genOnOff"})
           [] epNum = 8 -> Endpoint(Undefined, Undefined, Undefined, {})
           [] OTHER     -> Null] }

Init ==
    /\ rev = "ld6"
    /\ devCfg \in { OUTPUT_CONFIGURATIONS_ld6[IndexOfKey(OUTPUT_CONFIGURATIONS_ld6, m)].data :
                     m \in {"1x_cct", "1x_dimmable"} }
    /\ cache = Undefined
    /\ req = Idle
    /\ io = <<>>
    /\ reply = Pending
    /\ eps \in DeviceProfiles
    /\ exposed = Pending
    /\ synced = "no"
    /\ served = 0
    /\ other = NoOther
    /\ shadow = devCfg
    /\ raced = FALSE
    /\ devOptions = 0
    /\ devMode = 0
    /\ metaState = NoState
    /\ data = <<>>
    /\ origin = 0
    /\ flipped = FALSE
    /\ result = Pending

Next ==
    \/ \E value \in SessionModes : SetOutputMode_ld6(value)
    \/ \E value \in SessionRawValues : SetOutputConfiguration(value)
    \/ \E value \in SessionCalibrations : SetCalibration(value)
    \/ GetOutputConfiguration
    \/ Configure
    \/ ReadAnswered
    \/ ReadAnsweredEmpty
    \/ ReadFailed
    \/ WriteAcked
    \/ WriteFailed
    \/ Return
    \/ Report
    \/ Exposes

Spec == Init /\ [][Next]_vars

-----------------------------------------------------------------------------
(* Claims about the codec                                                  *)

canonical(k) == buildOutputConfigPayload(OUTPUT_CONFIGURATIONS_part000[k].data)

\* the descriptor fields a decoded channel stands for, packed back into bytes
EndpointIndexOf(ch) == IF ch.endpoint = Null THEN 0 ELSE ch.endpoint.v
FunctionCodeOf(ch) ==
    IF ch.function \in {"unused", "M"} THEN 0
    ELSE CHOOSE c \in 1..9 : funcNames[c + 1] = ch.function
FluxByteOf(ch) == IF ch.flux = Str("default") THEN 255 ELSE ch.flux.v

Whole           == Len(data) = Len(canonical(origin))
ParsedCanonical == result # Pending /\ ~flipped /\ Whole
ParsedFlipped   == result # Pending /\ flipped

C2_IdentifyCanonical ==
    ParsedCanonical =>
        /\ result.mode = OUTPUT_CONFIGURATIONS_part000[origin].name
        /\ result.description = OUTPUT_CONFIGURATIONS_part000[origin].description
        /\ result.mode # "custom"
        /\ \A k \in 1..Len(OUTPUT_CONFIGURATIONS_part000) :
              k # origin =>
                  /\ canonical(k) # data
                  /\ OUTPUT_CONFIGURATIONS_part000[k].name # result.mode

C2_Witness ==
    /\ ParsedCanonical
    /\ result.mode = "1x_rgbw_1x_cct"
    /\ OUTPUT_CONFIGURATIONS_part000[origin].name = "1x_rgbw_1x_cct"

\* C3 (as amended): a buffer that differs from a catalog entry's canonical
\* encoding in exactly one byte is never identified as that entry; it is
\* identified as "custom" unless it is byte-identical to the canonical encoding
\* of another catalog entry, and then as that other entry.
C3_OneByteOffNeverOriginal ==
    ParsedFlipped =>
        /\ result.mode # OUTPUT_CONFIGURATIONS_part000[origin].name
        /\ \/ /\ result.mode = "custom"
              /\ \A k \in 1..Len(OUTPUT_CONFIGURATIONS_part000) : data # canonical(k)
           \/ \E k \in 1..Len(OUTPUT_CONFIGURATIONS_part000) :
                 /\ k # origin
                 /\ data = canonical(k)
                 /\ result.mode = OUTPUT_CONFIGURATIONS_part000[k].name

C3_Witness ==
    /\ ParsedFlipped
    /\ result.mode = "custom"
    /\ OUTPUT_CONFIGURATIONS_part000[origin].name = "1x_cct"

\* C3 (original): every buffer that differs from a catalog entry's canonical
\* encoding in exactly one byte is identified as "custom".
C3_OneByteOffIsCustom == ParsedFlipped => result.mode = "custom"

-----------------------------------------------------------------------------
(* Claims about a single set request                                       *)

\* the writes the request has issued so far
WritesIssued == { i \in 1..Len(io) : io[i].e = "writeStructured" }

\* C4: setting output_mode to a name that is no key of the catalog fails with
\* an error whose message lists every catalog key; no write is sent and no
\* output_mode state is returned.
C4_UnknownModeListsEveryKey ==
    (req.op = "output_mode" /\ IndexOfKey(Catalog(rev), req.value) = 0) =>
        /\ req.pc = "done"
        /\ reply.t = "error"
        /\ Range(Keys(Catalog(rev))) \subseteq Range(reply.names)
        /\ WritesIssued = {}

\* C5: every mode name the README documents is accepted by set output_mode: the
\* converter does not reject it, and once the device has acknowledged the
\* write the request has sent exactly one write, of that mode's 6 elements,
\* and returns output_mode equal to the requested name.
C5_DocumentedModesAccepted ==
    (req.op = "output_mode" /\ req.value \in READMEModes) =>
        /\ reply.t = "error" => reply.text = "write failed"
        /\ reply.t = "ok" =>
              /\ Cardinality(WritesIssued) = 1
              /\ Len(io[1].elements) = 6
              /\ devCfg = io[1].elements
              /\ reply.state.output_mode = req.value

\* the byte positions (1-based) of an element that the patch supplies
SuppliedBytes(cal) ==
    (IF cal.flux # Undefined THEN {2} ELSE {})
        \cup (IF cal.x # Undefined THEN {3, 4} ELSE {})
        \cup (IF cal.y # Undefined THEN {5, 6} ELSE {})

CalibrationWrote == req.op = "calibration" /\ WritesIssued # {}

\* C6: the configuration a calibration writes back differs from the one it
\* read only in the bytes of the supplied fields of the target channel: the
\* target's endpointAndFunction byte, its unsupplied fields and every byte of
\* the other channels are as read.
C6_CalibrationFrame ==
    CalibrationWrote =>
        LET read    == req.resp
            written == io[Len(io)].elements
        IN  /\ Cardinality(WritesIssued) = 1
            /\ Len(written) = Len(read)
            /\ \A i \in 1..Len(read) :
                  /\ Len(written[i]) = Len(read[i])
                  /\ \A k \in 1..Len(read[i]) :
                        written[i][k] # read[i][k] =>
                            /\ i = req.cal.channel.v
                            /\ k \in SuppliedBytes(req.cal)

C6_Witness ==
    /\ CalibrationWrote
    /\ req.pc = "done"
    /\ reply.t = "ok"
    /\ req.cal.channel.v = 3
    /\ req.cal.flux = Num(254)
    /\ req.cal.x = Rat(3127, 10000)
    /\ req.cal.y = Undefined
    /\ Len(devCfg) = 6
    /\ devCfg[3] # req.resp[3]
    /\ devCfg[3][5] = req.resp[3][5]

BadChannel(cal) == cal.channel = Undefined \/ cal.channel.v < 1 \/ cal.channel.v > 6

\* C7: a calibration request whose channel is missing or outside 1..6 fails
\* with an error before any device I/O: the configuration is neither read nor
\* written and no calibration_status is returned.
C7_BadChannelFailsBeforeIO ==
    (req.op = "calibration" /\ req.parsed = "object" /\ BadChannel(req.cal)) =>
        /\ req.pc = "done"
        /\ reply.t = "error"
        /\ io = <<>>
        /\ cache = Undefined

C7_Witness ==
    /\ req.op = "calibration"
    /\ req.parsed = "object"
    /\ req.cal.channel = Num(7)
    /\ req.cal.flux = Num(254)
    /\ reply.t = "error"
    /\ reply.field = "channel"

OutOfRange(c) == c # Undefined /\ (c.num < 0 \/ c.num > c.den)

\* the fields of the request that are invalid
InvalidFields(r) ==
    IF r.parsed # "object" THEN {"value"}
    ELSE (IF BadChannel(r.cal) THEN {"channel"} ELSE {})
         \cup (IF r.cal.flux # Undefined /\ (r.cal.flux.v < 0 \/ r.cal.flux.v > 254)
               THEN {"flux"} ELSE {})
         \cup (IF OutOfRange(r.cal.x) THEN {"x"} ELSE {})
         \cup (IF OutOfRange(r.cal.y) THEN {"y"} ELSE {})

\* C8: a calibration request whose value is no JSON object, or whose flux lies
\* outside 0..254, or whose x or y lies outside 0..1, is rejected with an error
\* naming an offending field, and nothing is written to the device.
C8_InvalidCalibrationRejected ==
    (req.op = "calibration" /\ InvalidFields(req) \ {"channel"} # {}) =>
        /\ WritesIssued = {}
        /\ req.pc = "done" =>
              /\ reply.t = "error"
              /\ reply.field \in InvalidFields(req)

-----------------------------------------------------------------------------
(* Claims about the exposed colour temperature range                       *)

\* no cool-white/warm-white pair is found on endpoint epNum
NoWhitePair(outputConfigs, epNum) ==
    \/ outputConfigs = Undefined
    \/ LastMireds(outputConfigs.v, epNum, 1) = Undefined
    \/ LastMireds(outputConfigs.v, epNum, 2) = Undefined

\* the endpoints for which the evaluation exposed a colour temperature range
WithRange(lights) == { epNum \in LightEndpoints :
                         lights[epNum] # Null /\ lights[epNum].range # Undefined }

\* C9: when the evaluation finds no cool-white/warm-white pair on an endpoint
\* (no configuration stored, or no channel of the endpoint with function 1, or
\* none with function 2), the range exposed for it is exactly [153, 555].
C9_FallbackRange ==
    exposed # Pending =>
        \A epNum \in WithRange(exposed.lights) :
            NoWhitePair(exposed.from, epNum) =>
                exposed.lights[epNum].range = MiredRange(153, 555)

\* C10: once a configuration-changing write has been followed by a read or a
\* report, an evaluation of exposes after that yields, for every endpoint with
\* a colour temperature range, the range of the configuration the device holds
\* now: no range of an older configuration, and none remembered from an
\* earlier evaluation.
C10_RangeOfLatestConfiguration ==
    synced = "shown" =>
        /\ exposed.from = Array(devCfg)
        /\ \A epNum \in WithRange(exposed.lights) :
              exposed.lights[epNum].range = ColorTempRange(Array(devCfg), epNum)
        /\ WithRange(exposed.lights) = WithRange(exposes(Array(devCfg)))

\* a calibration moved the range of the light on endpoint 1 away from the
\* catalog's, and the evaluation after the next report shows the new range
C10_Witness ==
    /\ synced = "shown"
    /\ served >= 1
    /\ 1 \in WithRange(exposed.lights)
    /\ exposed.lights[1].range = MiredRange(154, 367)
    /\ \A m \in 1..Len(OUTPUT_CONFIGURATIONS_ld6) : OUTPUT_CONFIGURATIONS_ld6[m].data # devCfg

-----------------------------------------------------------------------------
(* Claims about the order of events of a mode switch                       *)

\* the settling waits the request has started
WaitsStarted == { i \in 1..Len(io) : io[i].e = "wait" }

\* C11: on set output_mode the write of the new configuration is acknowledged
\* first, then the settling wait runs, then the new output_mode state is
\* returned: a returned state has the acknowledged write and the wait before
\* it, and a failed write is followed by neither a wait nor a state.
C11_WriteWaitState ==
    req.op = "output_mode" =>
        /\ reply.t = "ok" =>
              /\ Len(io) = 2
              /\ io[1].e = "writeStructured"
              /\ io[2].e = "wait"
              /\ devCfg = io[1].elements
              /\ reply.state.output_mode = req.value
        /\ req.pc = "wait" => reply = Pending /\ devCfg = io[1].elements
        /\ (reply.t = "error" /\ reply.text = "write failed") => WaitsStarted = {}

-----------------------------------------------------------------------------
(* Claims about the range of a calibrated pair of whites                   *)

\* the 16-bit chromaticity <<X, Y>> of the last element of the configuration
\* on endpoint epNum with function func, <<>> when there is none
WhiteChroma(configs, epNum, func) ==
    LET hits == { i \in 1..Len(configs) :
                    /\ (ElByte(configs[i], 0) \div 16) % 16 = epNum
                    /\ ElByte(configs[i], 0) % 16 = func }
    IN  IF hits = {} THEN <<>>
        ELSE LET el == configs[CHOOSE i \in hits : \A j \in hits : j <= i]
             IN  <<ElByte(el, 2) + 256 * ElByte(el, 3), ElByte(el, 4) + 256 * ElByte(el, 5)>>

\* the 16-bit chromaticity a calibration writes for the white w
Raw16(w) == <<Round65536(w.x), Round65536(w.y)>>

\* the two whites of endpoint epNum hold the README's cool and warm white
CalibratedPair(outputConfigs, epNum) ==
    /\ outputConfigs # Undefined
    /\ { WhiteChroma(outputConfigs.v, epNum, 1), WhiteChroma(outputConfigs.v, epNum, 2) }
          = { Raw16(CoolWhite), Raw16(WarmWhite) }

-----------------------------------------------------------------------------
(* Specification of two requests in flight: the host does not serialise    *)
(* the set requests of a device, and the steps of two handlers interleave  *)
(* at their awaits.                                                        *)

\* the next event belongs to the other request in flight
Switch ==
    /\ req # Idle \/ other.req # Idle
    /\ other' = [req |-> req, io |-> io, reply |-> reply]
    /\ req' = other.req
    /\ io' = other.io
    /\ reply' = other.reply
    /\ UNCHANGED <<rev, devCfg, cache, shadow, raced>>
    /\ UNCHANGED codecVars
    /\ UNCHANGED attrVars
    /\ UNCHANGED hostVars

RaceModes == {"1x_dimmable", "2x_cct"}

RaceCalibrations ==
    { CalValue("object", [channel |-> Num(1), flux |-> Num(200), x |-> Undefined, y |-> Undefined]),
      CalValue("object", [channel |-> Num(1), flux |-> Undefined,
                          x |-> CoolWhite.x, y |-> CoolWhite.y]),
      CalValue("object", [channel |-> Num(2), flux |-> Undefined,
                          x |-> WarmWhite.x, y |-> WarmWhite.y]) }

RaceRawValues ==
    { toHex(buildOutputConfigPayload(
          OUTPUT_CONFIGURATIONS_ld6[IndexOfKey(OUTPUT_CONFIGURATIONS_ld6, "1x_rgb")].data)) }

RaceInit ==
    /\ rev \in {"part000", "ld6"}
    /\ devCfg = Catalog(rev)[IndexOfKey(Catalog(rev), "1x_cct")].data
    /\ cache = Undefined
    /\ req = Idle
    /\ io = <<>>
    /\ reply = Pending
    /\ eps = NoEndpoints
    /\ exposed = Pending
    /\ synced = "no"
    /\ served = 0
    /\ other = NoOther
    /\ shadow = devCfg
    /\ raced = FALSE
    /\ devOptions = 0
    /\ devMode = 0
    /\ metaState = NoState
    /\ data = <<>>
    /\ origin = 0
    /\ flipped = FALSE
    /\ result = Pending

RaceNext ==
    \/ \E value \in RaceModes : SetOutputMode_part000(value)
    \/ \E value \in RaceModes : SetOutputMode_ld6(value)
    \/ \E value \in RaceRawValues : SetOutputConfiguration(value)
    \/ \E value \in RaceCalibrations : SetCalibration(value)
    \/ ReadAnswered
    \/ ReadFailed
    \/ WriteAcked
    \/ WriteFailed
    \/ TimerFired
    \/ Return
    \/ Switch

SpecRace == RaceInit /\ [][RaceNext]_vars

\* C13: a calibration's update is lost, or overwrites another request's
\* change, only when another configuration-changing write was acknowledged
\* between the calibration's read and its write; with the requests executed
\* one at a time the device holds what the completed requests amount to, each
\* channel having the last patch applied to it since the last mode switch.
C13_LostOnlyWhenRaced ==
    /\ devCfg # shadow => raced
    /\ (other = NoOther /\ req.pc \in {"idle", "done"} /\ ~raced) => devCfg = shadow

\* both requests have completed, the mode switch ran between the read and the
\* write of the calibration, and the device holds the patched old mode
C13_Witness ==
    /\ raced
    /\ devCfg # shadow
    /\ req.pc = "done"
    /\ other.req.pc = "done"
    /\ reply.t = "ok"
    /\ other.reply.t = "ok"
    /\ {req.op, other.req.op} = {"calibration", "output_mode"}

-----------------------------------------------------------------------------
(* Claims about failures of a set request                                  *)

\* the writes a request attempted, whatever their outcome
WriteAttempts == { i \in 1..Len(io) : io[i].e \in {"writeStructured", "write"} }
ReadAttempts  == { i \in 1..Len(io) : io[i].e = "read" }

\* the errors of the device's read and write, as they reach the caller
ReadErrors ==
    { "read failed", "Device reported invalid configuration format",
      "Could not read current output configurations from device" }

\* C14: every set request (output_mode, output_configuration, calibration,
\* input_configurations, input_actions, advanced options) attempts at most
\* one write; when the write fails the caller gets the error, no state and no
\* settling wait, and the device keeps its configuration; when the read of a
\* calibration fails or comes back empty the caller gets the error and no
\* write was attempted.
C14_OneAttemptErrorsPropagate ==
    /\ Cardinality(WriteAttempts) <= 1
    /\ Cardinality(ReadAttempts) <= 1
    /\ (reply.t = "error" /\ reply.text = "write failed")
           => /\ req.pc = "done"
              /\ Cardinality(WriteAttempts) = 1
              /\ WaitsStarted = {}
              /\ devCfg = shadow
    /\ (reply.t = "error" /\ reply.text \in ReadErrors)
           => /\ req.op = "calibration"
              /\ req.pc = "done"
              /\ WriteAttempts = {}
    /\ (req.pc = "done" /\ req.op # "idle" /\ reply.t = "ok") => Cardinality(WriteAttempts) = 1

\* an advanced option of ubisys_ld6.mjs whose single write was rejected
C14_Witness ==
    /\ req.op = "advanced_options_constant_luminous_flux"
    /\ reply.t = "error"
    /\ reply.text = "write failed"
    /\ Cardinality(WriteAttempts) = 1

-----------------------------------------------------------------------------
(* Claims about the chromaticity bytes a calibration writes                *)

\* the chromaticity fields a calibration supplies, with the offset of their
\* low byte in the element
SuppliedChroma(cal) ==
    (IF cal.x # Undefined THEN {[v |-> cal.x, at |-> 3]} ELSE {})
        \cup (IF cal.y # Undefined THEN {[v |-> cal.y, at |-> 5]} ELSE {})

InUnitInterval(c) == c.num >= 0 /\ c.num <= c.den

\* the element a calibration wrote for its target channel
WrittenTarget == io[Len(io)].elements[req.cal.channel.v]
TargetWritten == req.cal.channel.v \in 1..Len(io[Len(io)].elements)

Min(a, b) == IF a < b THEN a ELSE b

\* C15: for every supplied x or y in [0,1] the two bytes a calibration writes
\* are round(value * 65536) clamped to 65535, low byte first; a value of 1 is
\* written as 65535 and never wraps to 0.
C15_ClampedLittleEndian ==
    (CalibrationWrote /\ TargetWritten) =>
        \A f \in SuppliedChroma(req.cal) :
            InUnitInterval(f.v) =>
                LET w == Min(Round65536(f.v), 65535)
                IN  /\ WrittenTarget[f.at]     = w % 256
                    /\ WrittenTarget[f.at + 1] = w \div 256

\* C16: an accepted calibration that supplies x (or y) never writes 0xFF in
\* both bytes of that field.
C16_NeverWritesSentinel ==
    (CalibrationWrote /\ TargetWritten) =>
        \A f \in SuppliedChroma(req.cal) :
            ~(WrittenTarget[f.at] = 255 /\ WrittenTarget[f.at + 1] = 255)

-----------------------------------------------------------------------------
(* Claims about decoding short buffers and function codes                  *)

ParsedPrefix == result # Pending /\ ~flipped /\ Len(data) >= 4

\* C17: for every prefix, of length at least 4, of a full 46-byte buffer the
\* parser returns exactly the channels whose 7-byte element lies entirely
\* inside the prefix, each as the full buffer gives it; the 4-byte header
\* alone gives no channel.
C17_ChannelsInsidePrefix ==
    ParsedPrefix =>
        /\ result.t = "object"
        /\ Len(result.channels) = (Len(data) - 4) \div 7
        /\ \A i \in 1..Len(result.channels) :
              result.channels[i] = ParseChannel(canonical(origin), i - 1, 4 + 7 * (i - 1))

\* C19: parsing a buffer of fewer than 4 bytes fails with an error; it never
\* yields a result and never yields nothing.
C19_ShortBufferIsError ==
    (result # Pending /\ Len(data) < 4) => (result # Null /\ result.t = "error")

\* the six elements are where the canonical layout has them
Aligned == Whole /\ \A i \in 0..5 : data[4 + 7 * i + 1] = 6

\* the function code of channel i of the buffer
FuncCode(i) == data[4 + 7 * (i - 1) + 2] % 16

\* the name of the function code func of a channel with an endpoint
FunctionTable(func) ==
    CASE func = 0 -> "M"
      [] func = 1 -> "CW"
      [] func = 2 -> "WW"
      [] func = 3 -> "R"
      [] func = 4 -> "G"
      [] func = 5 -> "B"
      [] func = 6 -> "A"
      [] func = 7 -> "T"
      [] func = 8 -> "V"
      [] func = 9 -> "F"
      [] OTHER    -> "unknown"

-----------------------------------------------------------------------------
(* Specification of the encoder: a sequence of channel descriptors, not    *)
(* necessarily six of them, is encoded and the buffer is parsed.           *)

MaxDescriptors == 7

\* n descriptors taken in turn from the catalog entry k
Descriptors(k, n) ==
    LET d == OUTPUT_CONFIGURATIONS_part000[k].data
    IN  [i \in 1..n |-> d[((i - 1) % Len(d)) + 1]]

EncodeInit ==
    /\ origin \in 1..Len(OUTPUT_CONFIGURATIONS_part000)
    /\ devCfg \in { Descriptors(origin, n) : n \in 0..MaxDescriptors }
    /\ data = <<>>
    /\ flipped = FALSE
    /\ result = Pending
    /\ rev = "part000"
    /\ cache = Undefined
    /\ req = Idle
    /\ io = <<>>
    /\ reply = Pending
    /\ eps = NoEndpoints
    /\ exposed = Pending
    /\ synced = "no"
    /\ served = 0
    /\ other = NoOther
    /\ shadow = <<>>
    /\ raced = FALSE
    /\ devOptions = 0
    /\ devMode = 0
    /\ metaState = NoState

\* buildOutputConfigPayload applied to the descriptors
Encode ==
    /\ data = <<>>
    /\ data' = buildOutputConfigPayload(devCfg)
    /\ UNCHANGED <<origin, flipped, result>>
    /\ UNCHANGED gwVars

EncodeNext == Encode \/ Parse

SpecEncode == EncodeInit /\ [][EncodeNext]_vars

\* the element count the header of a buffer announces (uint16, low byte first)
HeaderCount(buf) == buf[3] + 256 * buf[4]

\* C18: encoding a descriptor sequence whose length is not 6 fails instead
\* of producing a buffer: every buffer produced comes from six descriptors and
\* announces in its header the number of elements that follow it.
C18_SixOrNoBuffer ==
    data # <<>> =>
        /\ Len(devCfg) = 6
        /\ HeaderCount(data) = Len(SplitElements(data, 4))

-----------------------------------------------------------------------------
(* Claims about unused channels                                            *)

\* the endpoint index of channel i of the buffer
EndpointCode(i) == data[4 + 7 * (i - 1) + 2] \div 16

\* C21: a channel is reported as "unused" exactly when its function code and
\* its endpoint index are both 0; function code 0 with an endpoint is mono
\* ("M"), and a function code other than 0 with endpoint index 0 is reported
\* with the name of its function.
C21_UnusedIffBothZero ==
    (result # Pending /\ Aligned) =>
        \A i \in 1..6 :
            LET function == result.channels[i].function
            IN  /\ (function = "unused") <=> (FuncCode(i) = 0 /\ EndpointCode(i) = 0)
                /\ (FuncCode(i) = 0 /\ EndpointCode(i) # 0) => function = "M"
                /\ (FuncCode(i) # 0 /\ EndpointCode(i) = 0) =>
                       function = FunctionTable(FuncCode(i))

\* a parsed buffer whose channel 6 has function code 3 and no endpoint, next
\* to a channel 1 with an endpoint and function code 0
C21_Witness ==
    /\ result # Pending
    /\ Aligned
    /\ FuncCode(6) = 3
    /\ EndpointCode(6) = 0
    /\ result.channels[6].function = "R"
    /\ FuncCode(1) = 0
    /\ EndpointCode(1) # 0
    /\ result.channels[1].function = "M"

-----------------------------------------------------------------------------
(* Claims about the bounds of the exposed range                            *)

\* C22: the range of every light exposing colour temperature is the default
\* range or [min, max] of the cool and warm mireds of the cached
\* configuration, both finite and positive: no bound is zero, negative or
\* infinite, and lo <= hi.
C22_BoundsFinitePositive ==
    exposed # Pending =>
        \A epNum \in WithRange(exposed.lights) :
            LET range == exposed.lights[epNum].range
            IN  \/ range = MiredRange(153, 500)
                \/ /\ range.lo > 0
                   /\ range.lo <= range.hi
                   /\ range.hi < Infinity
                   /\ exposed.from # Undefined
                   /\ { range.lo, range.hi }
                        = { LastMireds(exposed.from.v, epNum, 1).v,
                            LastMireds(exposed.from.v, epNum, 2).v }

-----------------------------------------------------------------------------
(* Claims about the raw configuration state                                *)

RawSetSucceeded == req.op = "output_configuration" /\ req.pc = "done" /\ reply.t = "ok"

\* C23: after a successful set of output_configuration the state
\* output_configuration_raw is the hex encoding of the elements written to
\* the device, which is what a later report of the configuration publishes.
C23_RawStateIsWrittenEncoding ==
    RawSetSucceeded =>
        reply.state.output_configuration_raw
            = fzOutputConfiguration(io[Len(io)].elements).output_configuration_raw

-----------------------------------------------------------------------------
(* Specification of the exposed lights: endpoints join the host's view of  *)
(* the device one by one, and the host evaluates exposes at any time.      *)

\* what the host of part_000 knows of one endpoint: the attributes
\* colorCapabilities, colorTempPhysicalMinMireds and colorTempPhysicalMaxMireds
\* of lightingColorCtrl (Undefined when never read), and its input clusters
EndpointA(caps, minMireds, maxMireds, clusters) ==
    [ t |-> "endpoint", colorCapabilities |-> caps,
      colorTempPhysicalMinMireds |-> minMireds,
      colorTempPhysicalMaxMireds |-> maxMireds,
      inputClusters |-> clusters ]

\* `l${...}`: the number n of the endpoint name ln
EndpointName(epNum) == IF epNum = 1 THEN 1 ELSE IF epNum = 5 THEN 2 ELSE epNum - 3

\* a light feature with its endpoint name
LightEntry(epNum, type, range) ==
    [name |-> EndpointName(epNum), epNum |-> epNum, type |-> type, range |-> range]

\* addLightExpose(ep, endpointName) of part_000, lines 851-892: the light
\* entries it pushes
addLightExpose(ep, epNum) ==
    LET hasColorCtrl == "lightingColorCtrl" \in ep.inputClusters
        hasLevelCtrl == "genLevelCtrl" \in ep.inputClusters
        colorCaps == IF ep.colorCapabilities # Undefined THEN ep.colorCapabilities.v ELSE 25
        minMireds == IF ep.colorTempPhysicalMinMireds # Undefined
                     THEN ep.colorTempPhysicalMinMireds.v ELSE 153
        maxMireds == IF ep.colorTempPhysicalMaxMireds # Undefined
                     THEN ep.colorTempPhysicalMaxMireds.v ELSE 555
        supportsColor == (colorCaps \div 8) % 2 = 1 \/ colorCaps % 2 = 1
        supportsTemp  == (colorCaps \div 16) % 2 = 1
    IN  IF hasColorCtrl
        THEN <<LightEntry(epNum,
                   IF supportsColor /\ supportsTemp THEN "light_brightness_colortemp_colorxy"
                   ELSE IF supportsColor THEN "light_brightness_colorxy"
                   ELSE IF supportsTemp THEN "light_brightness_colortemp"
                   ELSE "light_brightness_colortemp_colorxy",
                   IF supportsColor /\ ~supportsTemp THEN Undefined
                   ELSE MiredRange(minMireds, maxMireds))>>
        ELSE IF hasLevelCtrl THEN <<LightEntry(epNum, "light_brightness", Undefined)>>
        ELSE <<>>

RECURSIVE AdditionalLights(_)
\* the for loop over the endpoints 5..9 of part_000, lines 904-912, from
\* endpoint epNum on
AdditionalLights(epNum) ==
    IF epNum > 9 THEN <<>>
    ELSE (IF eps[epNum] # Null THEN addLightExpose(eps[epNum], epNum) ELSE <<>>)
             \o AdditionalLights(epNum + 1)

\* the light entries definition.exposes of part_000 pushes, lines 893-912
exposes_part000 ==
    (IF eps[1] # Null THEN addLightExpose(eps[1], 1)
     ELSE <<LightEntry(1, "light_brightness_colortemp_colorxy", Undefined)>>)
        \o AdditionalLights(5)

RECURSIVE PushedFrom(_, _)
\* the entries the forEach of ubisys_ld6.mjs pushes, in the order of
\* [1, 5, 6, 7, 8, 9], from endpoint epNum on
PushedFrom(lights, epNum) ==
    IF epNum > 9 THEN <<>>
    ELSE (IF epNum \in LightEndpoints /\ lights[epNum] # Null
          THEN <<LightEntry(epNum, lights[epNum].type, lights[epNum].range)>>
          ELSE <<>>)
             \o PushedFrom(lights, epNum + 1)

\* the endpoints that join, and what the host may know of each
JoiningEndpoints == {1, 5, 6}

EndpointKinds(r) ==
    IF r = "ld6"
    THEN { Endpoint(Num(16), Undefined, Undefined, {"genOnOff", "genLevelCtrl"}),
           Endpoint(Num(8), Undefined, Undefined, {"genOnOff", "genLevelCtrl"}),
           Endpoint(Num(24), Undefined, Undefined, {"genOnOff", "genLevelCtrl"}),
           Endpoint(Num(0), Undefined, Undefined, {"genOnOff", "genLevelCtrl"}),
           Endpoint(Undefined, Num(250), Undefined, {"genOnOff", "genLevelCtrl"}),
           Endpoint(Undefined, Undefined, Undefined, {"genOnOff"}) }
    ELSE { EndpointA(Num(16), Num(154), Num(371), {"genOnOff", "genLevelCtrl", "lightingColorCtrl"}),
           EndpointA(Num(8), Undefined, Undefined, {"genOnOff", "genLevelCtrl", "lightingColorCtrl"}),
           EndpointA(Num(24), Undefined, Undefined, {"genOnOff", "genLevelCtrl", "lightingColorCtrl"}),
           EndpointA(Num(0), Undefined, Undefined, {"genOnOff", "genLevelCtrl", "lightingColorCtrl"}),
           EndpointA(Undefined, Undefined, Undefined, {"genOnOff", "genLevelCtrl"}),
           EndpointA(Undefined, Undefined, Undefined, {"genOnOff"}) }

ExposesInit ==
    /\ rev \in {"part000", "ld6"}
    /\ eps = NoEndpoints
    /\ exposed = Pending
    /\ cache = Undefined
    /\ devCfg = <<>>
    /\ req = Idle
    /\ io = <<>>
    /\ reply = Pending
    /\ synced = "no"
    /\ served = 0
    /\ other = NoOther
    /\ shadow = <<>>
    /\ raced = FALSE
    /\ devOptions = 0
    /\ devMode = 0
    /\ metaState = NoState
    /\ data = <<>>
    /\ origin = 0
    /\ flipped = FALSE
    /\ result = Pending

\* the host learns of the endpoint epNum
Join(epNum, ep) ==
    /\ eps[epNum] = Null
    /\ eps' = [eps EXCEPT ![epNum] = ep]
    /\ UNCHANGED <<rev, devCfg, cache, req, io, reply, exposed, synced, served>>
    /\ UNCHANGED codecVars
    /\ UNCHANGED attrVars
    /\ UNCHANGED raceVars

\* the host evaluates definition.exposes of its revision
EvaluateExposes ==
    /\ exposed' = [ from |-> cache, at |-> eps,
                    list |-> IF rev = "ld6" THEN PushedFrom(exposes(cache), 1)
                             ELSE exposes_part000 ]
    /\ UNCHANGED <<rev, devCfg, cache, req, io, reply, eps, synced, served>>
    /\ UNCHANGED codecVars
    /\ UNCHANGED attrVars
    /\ UNCHANGED raceVars

ExposesNext ==
    \/ \E epNum \in JoiningEndpoints : \E ep \in EndpointKinds(rev) : Join(epNum, ep)
    \/ EvaluateExposes

SpecExposes == ExposesInit /\ [][ExposesNext]_vars

\* the endpoint's capabilities include the bit: colorCapabilities is known
\* and has it, or, for want of colorCapabilities, the attribute itself is known
Capable(ep, bit, attribute) ==
    IF ep.colorCapabilities # Undefined THEN (ep.colorCapabilities.v \div bit) % 2 = 1
    ELSE attribute \in DOMAIN ep /\ ep[attribute] # Undefined

OffersColorTemp(entry) ==
    entry.type \in {"light_brightness_colortemp", "light_brightness_colortemp_colorxy"}
OffersColorXY(entry) ==
    entry.type \in {"light_brightness_colorxy", "light_brightness_colortemp_colorxy"}

\* C24: the exposed list has at most one light entry per light endpoint,
\* named l1..l6 for the endpoints 1, 5, 6, 7, 8, 9, none for an endpoint that
\* does not exist, and an entry offers colour temperature only if the
\* endpoint's capabilities include it and colour xy only if they include xy.
C24_LightsFollowCapabilities ==
    exposed # Pending =>
        LET list == exposed.list
        IN  /\ \A i, j \in 1..Len(list) : list[i].epNum = list[j].epNum => i = j
            /\ \A i \in 1..Len(list) :
                  LET ep == exposed.at[list[i].epNum]
                  IN  /\ list[i].epNum \in LightEndpoints
                      /\ ep # Null
                      /\ OffersColorTemp(list[i]) => Capable(ep, 16, "colorTemperature")
                      /\ OffersColorXY(list[i]) => Capable(ep, 8, "currentX")

-----------------------------------------------------------------------------
(* Specification of the advanced options: the device holds a bitmap, the   *)
(* host a state that reports and returned states are merged into.          *)

\* bit number index (0 is the lowest) of the bitmap val
Bit(val, index) == (val \div (2 ^ index)) % 2 = 1

\* the fromZigbee converter of advancedOptions (ubisys_ld6.mjs lines 181-196,
\* part_000 lines 535-548): the state a report of the bitmap val publishes
fzAdvancedOptions(r, val) ==
    [k \in Range(OptionKeys(r)) |->
        Bit(val, (CHOOSE i \in 1..Len(AdvancedOptionKeys) : AdvancedOptionKeys[i] = k) - 1)]

\* state[mappedKey] || false for every option key
OptionsOr(stateObject) ==
    [k \in Range(AdvancedOptionKeys) |->
        IF k \in DOMAIN stateObject THEN stateObject[k] ELSE FALSE]

OptionsInit ==
    /\ rev \in {"part000", "ld6"}
    /\ devOptions \in 0..31
    /\ metaState = NoState
    /\ devMode = 0
    /\ devCfg = <<>>
    /\ cache = Undefined
    /\ req = Idle
    /\ io = <<>>
    /\ reply = Pending
    /\ eps = NoEndpoints
    /\ exposed = Pending
    /\ synced = "no"
    /\ served = 0
    /\ other = NoOther
    /\ shadow = <<>>
    /\ raced = FALSE
    /\ data = <<>>
    /\ origin = 0
    /\ flipped = FALSE
    /\ result = Pending

\* the device reports its advancedOptions attribute and the host merges the
\* converted state into meta.state
ReportOptions ==
    /\ metaState' = fzAdvancedOptions(rev, devOptions) @@ metaState
    /\ UNCHANGED <<rev, devCfg, cache, req, io, reply, devOptions, devMode>>
    /\ UNCHANGED codecVars
    /\ UNCHANGED raceVars
    /\ UNCHANGED hostVars

\* the handler has returned or thrown: the host merges a returned state into
\* meta.state and is ready for the next request
ReturnState ==
    /\ req.pc = "done"
    /\ served < MaxServed
    /\ metaState' = IF reply.t = "ok" THEN reply.state @@ metaState ELSE metaState
    /\ req' = Idle
    /\ io' = <<>>
    /\ reply' = Pending
    /\ served' = served + 1
    /\ UNCHANGED <<rev, devCfg, cache, eps, exposed, synced, devOptions, devMode>>
    /\ UNCHANGED codecVars
    /\ UNCHANGED raceVars

OptionsNext ==
    \/ \E key \in Range(AdvancedOptionKeys), value \in BOOLEAN :
           SetAdvancedOption(key, value, OptionsOr(metaState))
    \/ AttributeWriteAcked
    \/ WriteFailed
    \/ ReportOptions
    \/ ReturnState

SpecOptions == OptionsInit /\ [][OptionsNext]_vars

\* the write of an advanced option is acknowledged in this step
OptionWriteAcked ==
    /\ req.pc = "write"
    /\ req.op \in Range(AdvancedOptionKeys)
    /\ req'.pc = "done"
    /\ reply'.t = "ok"

\* C25: setting one advanced option changes only that option's bit of the
\* device's advancedOptions bitmap: the bits of the other four options keep
\* the values they had on the device, also when the host's state is empty or
\* stale.
C25_OtherBitsKept ==
    [][ OptionWriteAcked =>
            \A index \in 0..4 :
                AdvancedOptionKeys[index + 1] # req.op =>
                    Bit(devOptions', index) = Bit(devOptions, index) ]_vars

-----------------------------------------------------------------------------
(* The ubisys J1 shutter converter (src/ubisys_j1.mjs): configure_j1 and   *)
(* motor_reversed requests against the mode attribute of the device.       *)

\* the fields of a configure_j1 value the handler looks at; a field the
\* caller left out is Undefined (exitCalibration: FALSE)
NoJ1Value ==
    [ calibrate |-> Undefined, exitCalibration |-> FALSE, steps_per_second |-> Undefined,
      windowCoveringType |-> Undefined, configStatus |-> Undefined,
      installedOpenLimitLiftCm |-> Undefined, installedClosedLimitLiftCm |-> Undefined,
      installedOpenLimitTiltDdegree |-> Undefined, installedClosedLimitTiltDdegree |-> Undefined,
      turnaroundGuardTime |-> Undefined,
      liftToTiltTransitionSteps |-> Undefined, liftToTiltTransitionSteps2 |-> Undefined,
      totalSteps |-> Undefined, totalSteps2 |-> Undefined,
      lift_to_tilt_transition_ms |-> Undefined, open_to_closed_s |-> Undefined,
      closed_to_open_s |-> Undefined,
      additionalSteps |-> Undefined, inactivePowerThreshold |-> Undefined,
      startupSteps |-> Undefined ]

\* the write of attr when the field v was supplied
WriteIfDefined(attr, v) == IF v # Undefined THEN <<WriteAttribute(attr, v.v)>> ELSE <<>>

\* the preparation and invalidation writes of a calibration, lines 277-304
CalibrationPreparation ==
    << WriteAttribute("installedOpenLimitLift", 0),
       WriteAttribute("installedClosedLimitLift", 240),
       WriteAttribute("installedOpenLimitTilt", 0),
       WriteAttribute("installedClosedLimitTilt", 900),
       WriteAttribute("0x1001", 65535),
       WriteAttribute("0x1002", 65535),
       WriteAttribute("0x1003", 65535),
       WriteAttribute("0x1004", 65535) >>

\* the step values of lines 356-371, direct or converted from times
StepValues(value) ==
    LET stepsPerSecond == IF Truthy(value.steps_per_second) THEN value.steps_per_second.v ELSE 50
        fromMs == value.lift_to_tilt_transition_ms # Undefined
        ltt    == IF fromMs
                  THEN Num(RoundedQuotient(value.lift_to_tilt_transition_ms.v * stepsPerSecond, 1000))
                  ELSE value.liftToTiltTransitionSteps
        ltt2   == IF fromMs THEN ltt ELSE value.liftToTiltTransitionSteps2
        total  == IF value.open_to_closed_s # Undefined
                  THEN Num(value.open_to_closed_s.v * stepsPerSecond) ELSE value.totalSteps
        total2 == IF value.closed_to_open_s # Undefined
                  THEN Num(value.closed_to_open_s.v * stepsPerSecond) ELSE value.totalSteps2
    IN  [liftToTiltSteps |-> ltt, liftToTiltSteps2 |-> ltt2,
         totalSteps |-> total, totalSteps2 |-> total2]

\* Plan entering calibration mode before the preparation writes
Plan_ModeFirst(value) ==
    (IF Truthy(value.calibrate)
     THEN <<WriteAttribute("mode", 2)>> \o CalibrationPreparation ELSE <<>>)
    \o WriteIfDefined("0x1001", StepValues(value).liftToTiltSteps)
    \o WriteIfDefined("0x1003", StepValues(value).liftToTiltSteps2)
    \o WriteIfDefined("0x1002", StepValues(value).totalSteps)
    \o WriteIfDefined("0x1004", StepValues(value).totalSteps2)
    \o (IF value.calibrate = Num(0) \/ value.exitCalibration
        THEN <<WriteAttribute("mode", 0)>> ELSE <<>>)

\* the writes tzConfigureJ1.convertSet awaits one after another, lines 274-420
Plan(value) ==
    (IF Truthy(value.calibrate)
     THEN CalibrationPreparation \o <<WriteAttribute("mode", 2)>> ELSE <<>>)
    \o WriteIfDefined("windowCoveringType", value.windowCoveringType)
    \o WriteIfDefined("configStatus", value.configStatus)
    \o WriteIfDefined("installedOpenLimitLift", value.installedOpenLimitLiftCm)
    \o WriteIfDefined("installedClosedLimitLift", value.installedClosedLimitLiftCm)
    \o WriteIfDefined("installedOpenLimitTilt", value.installedOpenLimitTiltDdegree)
    \o WriteIfDefined("installedClosedLimitTilt", value.installedClosedLimitTiltDdegree)
    \o WriteIfDefined("0x1000", value.turnaroundGuardTime)
    \o WriteIfDefined("0x1001", StepValues(value).liftToTiltSteps)
    \o WriteIfDefined("0x1003", StepValues(value).liftToTiltSteps2)
    \o WriteIfDefined("0x1002", StepValues(value).totalSteps)
    \o WriteIfDefined("0x1004", StepValues(value).totalSteps2)
    \o WriteIfDefined("0x1005", value.additionalSteps)
    \o WriteIfDefined("0x1006", value.inactivePowerThreshold)
    \o WriteIfDefined("0x1007", value.startupSteps)
    \o (IF value.calibrate = Num(0) \/ value.exitCalibration
        THEN <<WriteAttribute("mode", 0)>> ELSE <<>>)

\* tzConfigureJ1.convertSet up to its first await, or to its return when the
\* value asks for no write
ConfigureJ1(value) ==
    /\ req = Idle
    /\ LET plan == Plan(value)
       IN  IF plan = <<>>
           THEN /\ req' = [op |-> "configure_j1", pc |-> "done", value |-> value,
                           plan |-> plan, k |-> 0]
                /\ io' = <<>>
                /\ reply' = Ok([configure_j1 |-> "configured"])
           ELSE /\ req' = [op |-> "configure_j1", pc |-> "write", value |-> value,
                           plan |-> plan, k |-> 1]
                /\ io' = <<plan[1]>>
                /\ reply' = Pending
    /\ UNCHANGED <<rev, devCfg, cache>>
    /\ UNCHANGED codecVars
    /\ UNCHANGED attrVars
    /\ UNCHANGED raceVars
    /\ UNCHANGED hostVars

\* tzMode.convertSet up to its read of mode, lines 469-471
SetMotorReversed(value) ==
    /\ req = Idle
    /\ req' = [op |-> "motor_reversed", pc |-> "read", value |-> value]
    /\ io' = <<ReadAttr>>
    /\ reply' = Pending
    /\ UNCHANGED <<rev, devCfg, cache>>
    /\ UNCHANGED codecVars
    /\ UNCHANGED attrVars
    /\ UNCHANGED raceVars
    /\ UNCHANGED hostVars

\* the read of mode is answered: the handler sets or clears bit 0 of what it
\* read and writes the result, lines 471-473
ModeReadAnswered ==
    /\ req.pc = "read"
    /\ req.op = "motor_reversed"
    /\ LET currentMode == devMode
           newMode == IF req.value THEN currentMode + (IF currentMode % 2 = 1 THEN 0 ELSE 1)
                      ELSE currentMode - (currentMode % 2)
       IN  /\ req' = [req EXCEPT !.pc = "write"]
           /\ io' = io \o <<WriteAttribute("mode", newMode)>>
    /\ UNCHANGED <<rev, devCfg, cache, reply>>
    /\ UNCHANGED codecVars
    /\ UNCHANGED attrVars
    /\ UNCHANGED raceVars
    /\ UNCHANGED hostVars

\* a write of the J1 is acknowledged: the device holds a written mode, and
\* the handler goes on to its next write or returns
J1WriteAcked ==
    /\ req.pc = "write"
    /\ devMode' = IF io[Len(io)].attr = "mode" THEN io[Len(io)].value ELSE devMode
    /\ IF req.op = "configure_j1" /\ req.k < Len(req.plan)
       THEN /\ req' = [req EXCEPT !.k = req.k + 1]
            /\ io' = io \o <<req.plan[req.k + 1]>>
            /\ reply' = reply
       ELSE /\ req' = [req EXCEPT !.pc = "done"]
            /\ io' = io
            /\ reply' = IF req.op = "configure_j1" THEN Ok([configure_j1 |-> "configured"])
                        ELSE Ok([motor_reversed |-> req.value])
    /\ UNCHANGED <<rev, devCfg, cache, devOptions, metaState>>
    /\ UNCHANGED codecVars
    /\ UNCHANGED raceVars
    /\ UNCHANGED hostVars

\* the values of configure_j1 requests: start a calibration, with and without
\* step values and an exit; step values alone; an exit alone; nothing
J1Values ==
    { [NoJ1Value EXCEPT !.calibrate = Num(1)],
      [NoJ1Value EXCEPT !.calibrate = Num(1), !.totalSteps = Num(500),
                        !.lift_to_tilt_transition_ms = Num(1600), !.exitCalibration = TRUE],
      [NoJ1Value EXCEPT !.totalSteps = Num(500), !.totalSteps2 = Num(520),
                        !.windowCoveringType = Num(8)],
      [NoJ1Value EXCEPT !.calibrate = Num(0)],
      [NoJ1Value EXCEPT !.exitCalibration = TRUE, !.open_to_closed_s = Num(12)],
      NoJ1Value }

J1Init ==
    /\ rev = "j1"
    /\ devMode \in 0..3
    /\ devOptions = 0
    /\ metaState = NoState
    /\ devCfg = <<>>
    /\ cache = Undefined
    /\ req = Idle
    /\ io = <<>>
    /\ reply = Pending
    /\ eps = NoEndpoints
    /\ exposed = Pending
    /\ synced = "no"
    /\ served = 0
    /\ other = NoOther
    /\ shadow = <<>>
    /\ raced = FALSE
    /\ data = <<>>
    /\ origin = 0
    /\ flipped = FALSE
    /\ result = Pending

J1Next ==
    \/ \E value \in J1Values : ConfigureJ1(value)
    \/ \E value \in BOOLEAN : SetMotorReversed(value)
    \/ ModeReadAnswered
    \/ ReadFailed
    \/ J1WriteAcked
    \/ WriteFailed
    \/ Return
    \/ Switch

SpecJ1 == J1Init /\ [][J1Next]_vars

-----------------------------------------------------------------------------
(* Claims about the mode attribute and the calibration of the J1           *)

\* a write of the mode attribute is outstanding
ModeWriteOutstanding == req.pc = "write" /\ io[Len(io)].attr = "mode"

\* C26: every write to the mode attribute changes only the bit of the
\* requested feature: a motor_reversed request leaves bit 1 (calibration) of
\* the device as it was, and a configure_j1 request entering or leaving
\* calibration leaves bit 0 (motor reversed) as it was, however the requests
\* interleave.
C26_ModeBitsOwned ==
    [][ ModeWriteOutstanding =>
            /\ req.op = "motor_reversed" => Bit(devMode', 1) = Bit(devMode, 1)
            /\ req.op = "configure_j1"   => Bit(devMode', 0) = Bit(devMode, 0) ]_vars

CalibrateRequest == req.op = "configure_j1" /\ Truthy(req.value.calibrate)

EnterAt == { i \in 1..Len(io) : io[i] = WriteAttribute("mode", 2) }
ExitAt  == { i \in 1..Len(io) : io[i] = WriteAttribute("mode", 0) }
\* the writes of step values that follow the preparation
StepsAt == { i \in 9..Len(io) : io[i].attr \in {"0x1001", "0x1002", "0x1003", "0x1004"} }

\* the order of the writes a calibrating request has issued
CalibrationOrder ==
    CalibrateRequest =>
        /\ \A p \in EnterAt :
              /\ p = 9
              /\ io[1] = WriteAttribute("installedOpenLimitLift", 0)
              /\ io[2] = WriteAttribute("installedClosedLimitLift", 240)
              /\ io[3] = WriteAttribute("installedOpenLimitTilt", 0)
              /\ io[4] = WriteAttribute("installedClosedLimitTilt", 900)
              /\ io[5] = WriteAttribute("0x1001", 65535)
              /\ io[6] = WriteAttribute("0x1002", 65535)
              /\ io[7] = WriteAttribute("0x1003", 65535)
              /\ io[8] = WriteAttribute("0x1004", 65535)
        /\ \A i \in StepsAt : EnterAt # {} /\ \A q \in ExitAt : i < q
        /\ \A q \in ExitAt : EnterAt # {}
        /\ reply.t = "ok" => (EnterAt # {} /\ reply.state = [configure_j1 |-> "configured"])
        /\ reply.t = "error" => req.pc = "done"

\* a request whose write failed issues nothing more and keeps its error
FailedStops ==
    (req.op = "configure_j1" /\ reply.t = "error") =>
        \/ (req' = req /\ io' = io /\ reply' = reply)
        \/ (other'.req = req /\ other'.io = io /\ other'.reply = reply)
        \/ (req' = Idle /\ io' = <<>>)

\* C27: a configure_j1 request that calibrates writes mode = 0x02 only as its
\* ninth write, after the four limit writes and the four invalidations of
\* 0x1001..0x1004 in that order; step values of the same request are written
\* after that and before any write of mode = 0x00; a request whose write
\* failed issues no later write and does not return 'configured'.
C27_CalibrationSequence == [](CalibrationOrder) /\ [][FailedStops]_vars

\* a calibrating request with step values and an exit that has returned
C27_Witness ==
    /\ CalibrateRequest
    /\ reply.t = "ok"
    /\ Len(io) = 13
    /\ io[9] = WriteAttribute("mode", 2)
    /\ io[10] = WriteAttribute("0x1001", 80)
    /\ io[12] = WriteAttribute("0x1002", 500)
    /\ io[13] = WriteAttribute("mode", 0)

-----------------------------------------------------------------------------
(* Claims about the status a calibration returns                           *)

CalibrationReturned == req.op = "calibration" /\ req.pc = "done" /\ reply.t = "ok"

\* C28: a calibration returns its status "Updated channel N" only if the
\* configuration it wrote holds an element for channel N, the one it
\* modified; never when N indexes no element of what the device reported.
C28_StatusOnlyWhenUpdated ==
    CalibrationReturned =>
        /\ reply.state.calibration_status = req.cal.channel
        /\ req.cal.channel.v \in 1..Len(io[Len(io)].elements)

-----------------------------------------------------------------------------
(* Reports of the J1 window covering cluster                               *)

\* fzWindowCovering.convert restricted to the operationalStatus and mode
\* attributes: msgData is the record of the attributes the message carries
fzWindowCovering(msgData) ==
    LET statusPart ==
            IF "operationalStatus" \in DOMAIN msgData
            THEN LET status == msgData.operationalStatus IN
                 [operational_status |-> status,
                  moving   |-> status # 0,
                  movement |-> IF status % 4 = 1 THEN "opening"
                               ELSE IF status % 4 = 2 THEN "closing"
                               ELSE "stopped"]
            ELSE NoState
        modePart ==
            IF "mode" \in DOMAIN msgData
            THEN [mode |-> msgData.mode,
                  calibration_mode |-> Bit(msgData.mode, 1),
                  motor_reversed   |-> Bit(msgData.mode, 0)]
            ELSE NoState
    IN  statusPart @@ modePart

\* the operationalStatus attribute is a bitmap8
OperationalStatusValues == 0..255

\* the device reports its operational status; the host merges the result
ReportOperationalStatus(status) ==
    /\ metaState' = fzWindowCovering([operationalStatus |-> status]) @@ metaState
    /\ UNCHANGED <<rev, devCfg, cache, req, io, reply, devOptions, devMode>>
    /\ UNCHANGED codecVars
    /\ UNCHANGED raceVars
    /\ UNCHANGED hostVars

\* the device reports its mode attribute
ReportMode ==
    /\ metaState' = fzWindowCovering([mode |-> devMode]) @@ metaState
    /\ UNCHANGED <<rev, devCfg, cache, req, io, reply, devOptions, devMode>>
    /\ UNCHANGED codecVars
    /\ UNCHANGED raceVars
    /\ UNCHANGED hostVars

J1ReportNext ==
    \/ \E status \in OperationalStatusValues : ReportOperationalStatus(status)
    \/ ReportMode

SpecJ1Report == J1Init /\ [][J1ReportNext]_vars

StatusDecoded == "operational_status" \in DOMAIN metaState

\* C29: for every operationalStatus value the decoded fields agree: moving
\* is true exactly when movement is opening or closing, and movement is
\* stopped exactly when moving is false.
C29_MovingIffMovement ==
    StatusDecoded =>
        /\ metaState.moving <=> metaState.movement \in {"opening", "closing"}
        /\ metaState.movement = "stopped" <=> ~metaState.moving

-----------------------------------------------------------------------------
(* Claims about the two revisions' catalogs                                *)

\* the mode names both catalogs hold
CommonModes ==
    Range(Keys(OUTPUT_CONFIGURATIONS_part000)) \cap Range(Keys(OUTPUT_CONFIGURATIONS_ld6))

\* a set of output_mode with a name of both catalogs has issued its write
CommonModeWritten ==
    /\ req.op = "output_mode"
    /\ req.value \in CommonModes
    /\ io # <<>>
    /\ io[Len(io)].e = "writeStructured"

\* C30: every mode name of both catalogs maps to the same channel elements
\* byte for byte, so a set of output_mode writes the same configuration
\* whichever revision is installed.
C30_RevisionsWriteSameConfiguration ==
    CommonModeWritten =>
        \A r \in {"part000", "ld6"} :
            io[Len(io)].elements = Catalog(r)[IndexOfKey(Catalog(r), req.value)].data

=============================================================================
